---- MODULE Spec2Model ----
(***************************************************************************)
(* A model of the XDC n8n node's address utilities, epoch arithmetic,      *)
(* masternode client and reward estimator.                                 *)
(*                                                                         *)
(* Strings the code inspects character by character are sequences of       *)
(* one-character strings; messages and enumeration values are strings.     *)
(***************************************************************************)
EXTENDS Integers, Sequences, FiniteSets, TLC

VARIABLES
    aArgs,      \* argument list of the address-utility call under test
    aOp,        \* which address utility has been applied ("none" before the call)
    aRes,       \* what the call returned or threw
    rArgs,      \* arguments of calculateEstimatedRewards: stakeAmount,
                \* totalNetworkStake (decimal strings), blocksPerYear
    rOp,        \* "none" before the call, "calculateEstimatedRewards" after
    rRes,       \* what the call returned or threw
    uArgs,      \* arguments of the unit conversion under test: value, unit
    uOp,        \* "none" before the call, then "toWei" or "fromWei"
    uRes,       \* what the call returned or threw
    blockNumber,        \* the chain: its current height
    mined,              \* the chain: how many times it has grown so far
    candidates,         \* the chain: the validator contract's candidate list
    isCand,             \* the chain: the candidates isCandidate() is true for
    capOf,              \* the chain: each candidate's stake, in whole XDC
    voterCap,           \* the chain: the voter's stake on each candidate, in wei
    upFail,             \* the upstream queries that fail when they are made
    signer,             \* the provider: whether a private key was configured
    sent,               \* the chain: the write transactions submitted to it
    cOp,                \* the last client or node operation that completed
    cArgs,              \* its arguments
    cRes,               \* and what it returned or threw
    cSeen,              \* and what it read from the chain while it ran
    lPending,           \* getMasternodesList: the fetches not yet completed
    lResults,           \* getMasternodesList: the completed fetches, by position
    lastProcessedBlock, \* the trigger's workflow static data
    tEvent,             \* the event parameter of the trigger's last poll
    tOut,               \* the items that poll emitted (<<>>: it returned null)
    tErr,               \* the error that poll threw ("": it threw none)
    tEmitted,           \* the block or epoch numbers of all items emitted so far
    tFirst,             \* the height the first completed poll saw (-1: none yet)
    net,                \* the network: whether the k-th request from now on succeeds
    requests,           \* the network: how many of these requests have been made
    xItems,             \* Xdc.execute: the input items
    xCont,              \* Xdc.execute: what continueOnFail() returns
    xI,                 \* Xdc.execute: the loop index i
    xOut,               \* Xdc.execute: returnData
    xStatus             \* Xdc.execute: running, returned or thrown (with the error)

addrVars == <<aArgs, aOp, aRes>>
rewardVars == <<rArgs, rOp, rRes>>
unitVars == <<uArgs, uOp, uRes>>
chainVars == <<blockNumber, mined, candidates, isCand, capOf, voterCap, upFail, signer, sent>>
listVars == <<lPending, lResults>>
callVars == <<cOp, cArgs, cRes, cSeen, lPending, lResults>>
triggerVars == <<lastProcessedBlock, tEvent, tOut, tErr, tEmitted, tFirst>>
netVars == <<net, requests>>
execVars == <<xItems, xCont, xI, xOut, xStatus>>
vars == <<aArgs, aOp, aRes, rArgs, rOp, rRes, uArgs, uOp, uRes, blockNumber, mined,
          candidates, isCand, capOf, voterCap, upFail, signer, sent, cOp, cArgs, cRes,
          cSeen, lPending, lResults, lastProcessedBlock, tEvent, tOut, tErr, tEmitted,
          tFirst, net, requests, xItems, xCont, xI, xOut, xStatus>>

(***************************************************************************)
(* Characters and strings                                                  *)
(***************************************************************************)
UpperLetters == <<"A","B","C","D","E","F","G","H","I","J","K","L","M",
                  "N","O","P","Q","R","S","T","U","V","W","X","Y","Z">>
LowerLetters == <<"a","b","c","d","e","f","g","h","i","j","k","l","m",
                  "n","o","p","q","r","s","t","u","v","w","x","y","z">>

ToLower == [c \in {UpperLetters[i] : i \in DOMAIN UpperLetters} |->
               LowerLetters[CHOOSE i \in DOMAIN UpperLetters : UpperLetters[i] = c]]

LowerChar(c) == IF c \in DOMAIN ToLower THEN ToLower[c] ELSE c

\* String.prototype.toLowerCase
toLowerCase(s) == [i \in 1..Len(s) |-> LowerChar(s[i])]

\* String.prototype.startsWith
startsWith(s, p) == Len(s) >= Len(p) /\ SubSeq(s, 1, Len(p)) = p

\* String.prototype.slice(k) for 0 <= k
sliceFrom(s, k) == IF k >= Len(s) THEN <<>> ELSE SubSeq(s, k + 1, Len(s))

\* Array.prototype.slice(0, n) for 0 <= n
slicePrefix(s, n) == IF n >= Len(s) THEN s ELSE SubSeq(s, 1, n)

XdcTag == <<"x","d","c">>
EthTag == <<"0","x">>

\* The outcome of a call: a returned value, or a thrown Error with its message.
Return(v) == [ok |-> TRUE, val |-> v, err |-> ""]
Throw(msg) == [ok |-> FALSE, val |-> <<>>, err |-> msg]

(***************************************************************************)
(* Arbitrary-precision naturals (JavaScript bigint >= 0): little-endian    *)
(* sequences of limbs in base 10000 without leading zero limbs; 0 is <<>>. *)
(***************************************************************************)
Limb(a, i) == IF i <= Len(a) THEN a[i] ELSE 0

BNorm(a) ==
    IF \A i \in DOMAIN a : a[i] = 0 THEN <<>>
    ELSE SubSeq(a, 1, CHOOSE k \in DOMAIN a :
                          a[k] # 0 /\ \A j \in (k + 1)..Len(a) : a[j] = 0)

\* a small non-negative integer as a bigint
BFromInt(n) ==
    BNorm(<<n % 10000, (n \div 10000) % 10000, n \div 100000000>>)

RECURSIVE BAddRec(_, _, _, _)
BAddRec(a, b, i, c) ==
    IF i > Len(a) /\ i > Len(b) THEN (IF c = 0 THEN <<>> ELSE <<c>>)
    ELSE LET t == Limb(a, i) + Limb(b, i) + c
         IN  <<t % 10000>> \o BAddRec(a, b, i + 1, t \div 10000)

BAdd(a, b) == BAddRec(a, b, 1, 0)

RECURSIVE BSubRec(_, _, _, _)
BSubRec(a, b, i, c) ==
    IF i > Len(a) THEN <<>>
    ELSE LET t == Limb(a, i) - Limb(b, i) - c
         IN  IF t < 0 THEN <<t + 10000>> \o BSubRec(a, b, i + 1, 1)
             ELSE <<t>> \o BSubRec(a, b, i + 1, 0)

\* a - b for a >= b
BSub(a, b) == BNorm(BSubRec(a, b, 1, 0))

\* -1, 0 or 1 as a < b, a = b, a > b
BCmp(a, b) ==
    IF Len(a) < Len(b) THEN -1
    ELSE IF Len(a) > Len(b) THEN 1
    ELSE IF a = b THEN 0
    ELSE LET k == CHOOSE k \in DOMAIN a :
                      a[k] # b[k] /\ \A j \in (k + 1)..Len(a) : a[j] = b[j]
         IN  IF a[k] < b[k] THEN -1 ELSE 1

BLess(a, b) == BCmp(a, b) = -1
BIsOdd(a) == a # <<>> /\ a[1] % 2 = 1

RECURSIVE BMulSmallRec(_, _, _, _)
BMulSmallRec(a, k, i, c) ==
    IF i > Len(a) THEN (IF c = 0 THEN <<>> ELSE <<c>>)
    ELSE LET t == a[i] * k + c
         IN  <<t % 10000>> \o BMulSmallRec(a, k, i + 1, t \div 10000)

\* a * k for 0 <= k < 10000
BMulSmall(a, k) == IF k = 0 THEN <<>> ELSE BMulSmallRec(a, k, 1, 0)

\* a * 10000^n
BShiftLimbs(a, n) == IF a = <<>> THEN <<>> ELSE [i \in 1..n |-> 0] \o a

RECURSIVE BMulRec(_, _, _)
BMulRec(a, b, i) ==
    IF i > Len(b) THEN <<>>
    ELSE BAdd(BShiftLimbs(BMulSmall(a, b[i]), i - 1), BMulRec(a, b, i + 1))

BMul(a, b) == IF a = <<>> \/ b = <<>> THEN <<>> ELSE BMulRec(a, b, 1)

\* quotient limbs 1..i of a / k, given the remainder carried in from above
RECURSIVE BDivSmallRec(_, _, _, _)
BDivSmallRec(a, k, i, r) ==
    IF i = 0 THEN <<>>
    ELSE LET cur == r * 10000 + a[i]
         IN  BDivSmallRec(a, k, i - 1, cur % k) \o <<cur \div k>>

\* a div k and a mod k for 1 <= k <= 10000
BDivSmall(a, k) == BNorm(BDivSmallRec(a, k, Len(a), 0))

RECURSIVE BModSmallRec(_, _, _, _)
BModSmallRec(a, k, i, r) ==
    IF i = 0 THEN r ELSE BModSmallRec(a, k, i - 1, (r * 10000 + a[i]) % k)

BModSmall(a, k) == BModSmallRec(a, k, Len(a), 0)

BDouble(a) == BMulSmall(a, 2)
BHalf(a) == BDivSmall(a, 2)

\* the largest q in lo..hi with q*b <= cur, given lo*b <= cur
RECURSIVE QuotDigit(_, _, _, _)
QuotDigit(cur, b, lo, hi) ==
    IF lo = hi THEN lo
    ELSE LET mid == (lo + hi + 1) \div 2
         IN  IF BCmp(BMulSmall(b, mid), cur) = 1
             THEN QuotDigit(cur, b, lo, mid - 1)
             ELSE QuotDigit(cur, b, mid, hi)

\* long division of the limbs i..Len(a) of a by b: [q, r]
RECURSIVE BDivModRec(_, _, _)
BDivModRec(a, b, i) ==
    IF i > Len(a) THEN [q |-> <<>>, r |-> <<>>]
    ELSE LET h == BDivModRec(a, b, i + 1)
             cur == BNorm(<<a[i]>> \o h.r)
             qd == QuotDigit(cur, b, 0, 9999)
         IN  [q |-> <<qd>> \o h.q, r |-> BSub(cur, BMulSmall(b, qd))]

\* [q, r] with a = q*b + r and 0 <= r < b, for b > 0
BDivMod(a, b) == LET d == BDivModRec(a, b, 1) IN [q |-> BNorm(d.q), r |-> d.r]

BDiv(a, b) == BDivMod(a, b).q

Pow2Small == <<1, 2, 4, 8, 16, 32, 64, 128, 256, 512, 1024, 2048, 4096, 8192>>
Pow10Small == <<1, 10, 100, 1000>>

RECURSIVE BPow2Rec(_)
BPow2Rec(n) == IF n <= 13 THEN <<Pow2Small[n + 1]>> ELSE BMulSmall(BPow2Rec(n - 13), 8192)

\* 2^n; the powers a binary64 mantissa and the amounts of the model need are
\* tabulated
Pow2Table == [n \in 0..255 |-> BPow2Rec(n)]
BPow2(n) == IF n <= 255 THEN Pow2Table[n] ELSE BPow2Rec(n)

BPow10(n) == [i \in 1..(n \div 4) |-> 0] \o <<Pow10Small[(n % 4) + 1]>>

\* a * 10^n and a div 10^n
BMulPow10(a, n) == BShiftLimbs(BMulSmall(a, Pow10Small[(n % 4) + 1]), n \div 4)
BDivPow10(a, n) == BDivSmall(sliceFrom(a, n \div 4), Pow10Small[(n % 4) + 1])

\* a * 2^n and a div 2^n
RECURSIVE BShiftLeft(_, _)
BShiftLeft(a, n) == IF n <= 13 THEN BMulSmall(a, Pow2Small[n + 1])
                    ELSE BMulSmall(BShiftLeft(a, n - 13), 8192)

RECURSIVE BShiftRight(_, _)
BShiftRight(a, n) == IF n <= 13 THEN BDivSmall(a, Pow2Small[n + 1])
                     ELSE BDivSmall(BShiftRight(a, n - 13), 8192)

\* the number of bits of a > 0: 2^(BitLen-1) <= a < 2^BitLen
BitLen(a) ==
    CHOOSE n \in (13 * (Len(a) - 1) + 1)..(14 * Len(a)) :
        ~BLess(a, BPow2(n - 1)) /\ BLess(a, BPow2(n))

(***************************************************************************)
(* Decimal strings                                                         *)
(***************************************************************************)
Digits == <<"0","1","2","3","4","5","6","7","8","9">>
IsDigit(c) == \E i \in DOMAIN Digits : Digits[i] = c
DigitVal(c) == (CHOOSE i \in DOMAIN Digits : Digits[i] = c) - 1
DigitChar(n) == Digits[n + 1]

Zeros(n) == [i \in 1..n |-> "0"]

\* s without its leading "0"s, but at least one character of it
TrimLeadingZeros(s) ==
    IF \A i \in DOMAIN s : s[i] = "0" THEN <<"0">>
    ELSE SubSeq(s, CHOOSE k \in DOMAIN s :
                       s[k] # "0" /\ \A j \in 1..(k - 1) : s[j] = "0", Len(s))

\* bigint.toString(): decimal digits, most significant first; "0" for zero
BToString(a) ==
    IF a = <<>> THEN <<"0">>
    ELSE LET n == 4 * Len(a)
             \* decimal digit at weight 10^j
             digitAt(j) == (a[(j \div 4) + 1] \div Pow10Small[(j % 4) + 1]) % 10
         IN  TrimLeadingZeros([i \in 1..n |-> DigitChar(digitAt(n - i))])

\* the value of a string of decimal digits
BParse(s) ==
    LET n == Len(s)
        \* decimal digit at weight 10^j
        digitAt(j) == IF j < n THEN DigitVal(s[n - j]) ELSE 0
    IN  BNorm([k \in 1..((n + 3) \div 4) |->
                  digitAt(4 * k - 4) + 10 * digitAt(4 * k - 3)
                      + 100 * digitAt(4 * k - 2) + 1000 * digitAt(4 * k - 1)])

(***************************************************************************)
(* JavaScript Number (IEEE-754 binary64), non-negative values only:        *)
(* a finite value is m * 2^e with m = 0 or 2^(MantBits-1) <= m < 2^MantBits;*)
(* every operation rounds to nearest, ties to even.                        *)
(***************************************************************************)
MantBits == 53

TwoPMant == BPow2(MantBits)
TwoPMantHalf == BPow2(MantBits - 1)

FZero == [k |-> "fin", m |-> <<>>, e |-> 0]
FInf == [k |-> "inf", m |-> <<>>, e |-> 0]
FNaN == [k |-> "nan", m |-> <<>>, e |-> 0]

\* round to nearest, ties to even: cmp compares the dropped bits with one half
RoundsUp(cmp, sticky, odd) == cmp = 1 \/ (cmp = 0 /\ (sticky \/ odd))

\* m * 2^e for a mantissa m that rounding may have carried up to 2^MantBits
FCarry(m, e) == IF m = TwoPMant THEN [k |-> "fin", m |-> TwoPMantHalf, e |-> e + 1]
                ELSE [k |-> "fin", m |-> m, e |-> e]

\* n has drop bits too many, and q is n without them
FRoundCut(n, q, drop, e, sticky) ==
    FCarry(IF RoundsUp(BCmp(BSub(n, BShiftLeft(q, drop)), BPow2(drop - 1)),
                       sticky, BIsOdd(q))
           THEN BAdd(q, <<1>>) ELSE q,
           e + drop)

FRoundBits(n, bits, e, sticky) ==
    IF bits <= MantBits
    THEN [k |-> "fin", m |-> BShiftLeft(n, MantBits - bits), e |-> e - (MantBits - bits)]
    ELSE FRoundCut(n, BShiftRight(n, bits - MantBits), bits - MantBits, e, sticky)

\* the Number nearest to (n + fraction) * 2^e, where sticky says that the
\* fraction is nonzero (n then has more than MantBits bits)
FRound(n, e, sticky) ==
    IF n = <<>> THEN FZero ELSE FRoundBits(n, BitLen(n), e, sticky)

\* Number(bigint)
NumberOfBigInt(n) == FRound(n, 0, FALSE)

\* x / y
FDiv(x, y) ==
    IF x.k = "nan" \/ y.k = "nan" THEN FNaN
    ELSE IF x.k = "inf" THEN (IF y.k = "inf" THEN FNaN ELSE FInf)
    ELSE IF y.k = "inf" THEN FZero
    ELSE IF y.m = <<>> THEN (IF x.m = <<>> THEN FNaN ELSE FInf)
    ELSE IF x.m = <<>> THEN FZero
    ELSE LET d == BDivMod(BShiftLeft(x.m, MantBits + 2), y.m)
         IN  FRound(d.q, x.e - y.e - (MantBits + 2), d.r # <<>>)

\* x * y
FMul(x, y) ==
    IF x.k = "nan" \/ y.k = "nan" THEN FNaN
    ELSE IF x.k = "inf" \/ y.k = "inf"
         THEN (IF (x.k = "fin" /\ x.m = <<>>) \/ (y.k = "fin" /\ y.m = <<>>)
               THEN FNaN ELSE FInf)
    ELSE FRound(BMul(x.m, y.m), x.e + y.e, FALSE)

\* the integer part of a finite x, as a bigint
FIntPart(x) == IF x.e >= 0 THEN BShiftLeft(x.m, x.e)
               ELSE IF 0 - x.e > MantBits THEN <<>>
               ELSE BShiftRight(x.m, 0 - x.e)

FIsInteger(x) == x.k = "fin" /\ (x.e >= 0 \/ x.m = <<>> \/
                     (0 - x.e <= MantBits /\ BShiftLeft(FIntPart(x), 0 - x.e) = x.m))

\* Math.floor
Math_floor(x) == IF x.k # "fin" THEN x ELSE FRound(FIntPart(x), 0, FALSE)

\* BigInt(number): a RangeError unless the number is an integer
BigIntOfNumber(x) == IF FIsInteger(x) THEN Return(FIntPart(x))
                     ELSE Throw("RangeError")

\* BigInt(string) for strings of decimal digits ('' is 0n); anything else is
\* a SyntaxError
BigIntOfString(s) ==
    IF \A i \in 1..Len(s) : IsDigit(s[i]) THEN Return(BParse(s))
    ELSE Throw("SyntaxError")

\* x >= 10^21
FAtLeast1e21(x) == x.k = "fin" /\ x.e >= 0 /\ ~BLess(BShiftLeft(x.m, x.e), BPow10(21))

\* Number::toString for x >= 10^21: the shortest digit string that reads
\* back as x, in exponent notation. X is the value of x, K its digit count.
RECURSIVE ShortestDigits(_, _, _, _)
ShortestDigits(x, X, K, nd) ==
    LET lo == BDivPow10(X, K - nd)
        hi == BAdd(lo, <<1>>)
        loVal == BMulPow10(lo, K - nd)
        hiVal == BMulPow10(hi, K - nd)
        loOk == ~BLess(lo, BPow10(nd - 1)) /\ NumberOfBigInt(loVal) = x
        hiOk == NumberOfBigInt(hiVal) = x
        hiCloser == BLess(BSub(hiVal, X), BSub(X, loVal))
    IN  IF loOk /\ hiOk THEN [s |-> IF hiCloser THEN hi ELSE lo, nd |-> nd]
        ELSE IF loOk THEN [s |-> lo, nd |-> nd]
        ELSE IF hiOk THEN [s |-> hi, nd |-> nd]
        ELSE ShortestDigits(x, X, K, nd + 1)

NumberToExpString(x) ==
    LET X == FIntPart(x)
        K == Len(BToString(X))
        r == ShortestDigits(x, X, K, 1)
        sd == BToString(r.s)
    IN  IF Len(sd) > r.nd      \* rounded up to the next power of ten
        THEN <<"1", "e", "+">> \o BToString(BFromInt(K))
        ELSE (IF Len(sd) = 1 THEN sd ELSE <<sd[1], ".">> \o sliceFrom(sd, 1))
                 \o <<"e", "+">> \o BToString(BFromInt(K - 1))

\* s with "0"s in front up to length n
PadZeros(s, n) == IF Len(s) >= n THEN s ELSE Zeros(n - Len(s)) \o s

\* Number.prototype.toFixed(f) for f >= 1
toFixed(x, f) ==
    IF x.k = "nan" THEN <<"N","a","N">>
    ELSE IF x.k = "inf" THEN <<"I","n","f","i","n","i","t","y">>
    ELSE IF FAtLeast1e21(x) THEN NumberToExpString(x)
    ELSE LET num == BMul(x.m, BPow10(f))
             \* the integer nearest to x * 10^f, the larger one on a tie
             n == IF x.e >= 0 THEN BShiftLeft(num, x.e)
                  ELSE BShiftRight(BAdd(BDouble(num), BPow2(0 - x.e)), 1 - x.e)
             str == PadZeros(BToString(n), f + 1)
         IN  SubSeq(str, 1, Len(str) - f) \o <<".">> \o SubSeq(str, Len(str) - f + 1, Len(str))

(***************************************************************************)
(* ethers: formatUnits                                                     *)
(***************************************************************************)
\* ethers.formatUnits(value, decimals) for decimals >= 1: the exact decimal
\* with at least one digit on each side of the point
formatUnits(value, decimals) ==
    LET str == PadZeros(BToString(value), decimals + 1)
        index == Len(str) - decimals
        \* the last fraction digit kept: the last nonzero one, or the first
        last == IF \A i \in (index + 1)..Len(str) : str[i] = "0" THEN index + 1
                ELSE CHOOSE k \in (index + 1)..Len(str) :
                         str[k] # "0" /\ \A j \in (k + 1)..Len(str) : str[j] = "0"
    IN  SubSeq(str, 1, index) \o <<".">> \o SubSeq(str, index + 1, last)

EtherDecimals == 18

\* unitConverter.weiToXdc
weiToXdc(weiValue) == formatUnits(weiValue, EtherDecimals)

(***************************************************************************)
(* unitConverter: fromWei and toWei.  A bigint result is a record of its   *)
(* sign and its magnitude.                                                 *)
(***************************************************************************)
U_wei == <<"w","e","i">>
U_kwei == <<"k","w","e","i">>
U_mwei == <<"m","w","e","i">>
U_gwei == <<"g","w","e","i">>
U_szabo == <<"s","z","a","b","o">>
U_finney == <<"f","i","n","n","e","y">>
U_xdc == <<"x","d","c">>
U_ether == <<"e","t","h","e","r">>

UNIT_DECIMALS ==
    (U_wei :> 0) @@ (U_kwei :> 3) @@ (U_mwei :> 6) @@ (U_gwei :> 9) @@
    (U_szabo :> 12) @@ (U_finney :> 15) @@ (U_xdc :> 18) @@ (U_ether :> 18)

\* UNIT_DECIMALS[unitLower] || 18: undefined and 0 both give 18
decimalsOr18(unitLower) ==
    IF unitLower \in DOMAIN UNIT_DECIMALS /\ UNIT_DECIMALS[unitLower] # 0
    THEN UNIT_DECIMALS[unitLower]
    ELSE EtherDecimals

BigIntValue(neg, mag) == [neg |-> neg /\ mag # <<>>, mag |-> mag]

AllDigits(s) == \A i \in 1..Len(s) : IsDigit(s[i])

\* the position of the first "." of s, or 0
DotAt(s) == IF \E i \in DOMAIN s : s[i] = "."
            THEN CHOOSE i \in DOMAIN s : s[i] = "." /\ \A j \in 1..(i - 1) : s[j] # "."
            ELSE 0

\* ethers.parseUnits(value, decimals): FixedNumber.fromString matches
\* /^(-?)([0-9]*)\.?([0-9]*)$/, wants a digit, pads the fraction to decimals
\* places and refuses nonzero digits beyond them
parseUnits(value, decimals) ==
    LET neg == value # <<>> /\ value[1] = "-"
        rest == IF neg THEN Tail(value) ELSE value
        d == DotAt(rest)
        whole == IF d = 0 THEN rest ELSE SubSeq(rest, 1, d - 1)
        frac == IF d = 0 THEN <<>> ELSE sliceFrom(rest, d)
    IN  IF ~(AllDigits(whole) /\ AllDigits(frac)) \/ Len(whole) + Len(frac) = 0
        THEN Throw("invalid FixedNumber string value")
        ELSE IF \E i \in (decimals + 1)..Len(frac) : frac[i] # "0"
        THEN Throw("too many decimals for format")
        ELSE LET decimal == [i \in 1..decimals |-> IF i <= Len(frac) THEN frac[i] ELSE "0"]
             IN  Return(BigIntValue(neg, BParse(whole \o decimal)))

\* ethers getBigInt(string): BigInt(value), a leading "-" negates
getBigInt(value) ==
    LET neg == value # <<>> /\ value[1] = "-"
        rest == IF neg THEN Tail(value) ELSE value
    IN  IF rest = <<>> \/ ~AllDigits(rest) THEN Throw("invalid BigNumberish string")
        ELSE Return(BigIntValue(neg, BParse(rest)))

\* unitConverter.toWei(value, unit) for a string value
toWei(value, unit) ==
    LET unitLower == toLowerCase(unit)
    IN  IF unitLower = U_xdc THEN parseUnits(value, EtherDecimals)
        ELSE parseUnits(value, decimalsOr18(unitLower))

\* unitConverter.fromWei(weiValue, unit) for a string weiValue
fromWei(weiValue, unit) ==
    LET unitLower == toLowerCase(unit)
        decimals == IF unitLower = U_xdc THEN EtherDecimals ELSE decimalsOr18(unitLower)
        wei == getBigInt(weiValue)
    IN  IF ~wei.ok THEN Throw(wei.err)
        ELSE Return((IF wei.val.neg THEN <<"-">> ELSE <<>>)
                        \o formatUnits(wei.val.mag, decimals))

MaxUnitZeros == 18    \* amounts in wei have up to MaxUnitZeros zeros

UnitInputs == {U_wei, U_kwei, U_mwei, U_gwei, U_szabo, U_finney, U_xdc, U_ether,
               <<"X","D","C">>, <<"G","w","e","i">>, <<"u","n","i","t">>}
ValueInputs ==
    {<<>>, <<"0">>, <<"1">>, <<"5">>, <<"4","2">>, <<"0",".","5">>, <<"1",".","5">>,
     <<".","5">>, <<"5",".">>, <<".">>, <<"0",".","0","0","0","5">>,
     <<"-","1">>, <<"-","0",".","5">>, <<"-","0">>, <<"-">>, <<"-","-","1">>,
     <<"+","1">>, <<"a","b","c">>, <<"1","e","3">>, <<"1",",","5">>, <<"1",".","2",".","3">>,
     <<"N","a","N">>, <<" ","1">>}
        \cup {<<"1">> \o Zeros(k) : k \in {9, MaxUnitZeros}}
        \cup {<<"1", "5">> \o Zeros(MaxUnitZeros - 1)}
        \cup {<<"0", ".">> \o Zeros(MaxUnitZeros) \o <<"1">>}

CallToWei ==
    /\ uOp = "none"
    /\ uOp' = "toWei"
    /\ uRes' = toWei(uArgs[1], uArgs[2])
    /\ UNCHANGED <<uArgs, addrVars, rewardVars, chainVars, callVars, triggerVars, netVars, execVars>>

CallFromWei ==
    /\ uOp = "none"
    /\ uOp' = "fromWei"
    /\ uRes' = fromWei(uArgs[1], uArgs[2])
    /\ UNCHANGED <<uArgs, addrVars, rewardVars, chainVars, callVars, triggerVars, netVars, execVars>>

(***************************************************************************)
(* addressUtils                                                            *)
(***************************************************************************)
PayloadLen == 40

\* faulty variant of toXdcAddress: the 0x tag is kept behind the xdc tag
toXdcAddress_KeepTag(address) ==
    IF address = <<>> THEN Throw("Address is required")
    ELSE LET normalized == toLowerCase(address) IN
         IF startsWith(normalized, XdcTag) THEN Return(normalized)
         ELSE IF startsWith(normalized, EthTag)
              THEN Return(XdcTag \o normalized)
         ELSE IF Len(normalized) = PayloadLen THEN Return(XdcTag \o normalized)
         ELSE Throw("Invalid address format")

toXdcAddress(address) ==
    IF address = <<>> THEN Throw("Address is required")
    ELSE LET normalized == toLowerCase(address) IN
         IF startsWith(normalized, XdcTag) THEN Return(normalized)
         ELSE IF startsWith(normalized, EthTag)
              THEN Return(XdcTag \o sliceFrom(normalized, 2))
         ELSE IF Len(normalized) = PayloadLen THEN Return(XdcTag \o normalized)
         ELSE Throw("Invalid address format")

toEthAddress(address) ==
    IF address = <<>> THEN Throw("Address is required")
    ELSE LET normalized == toLowerCase(address) IN
         IF startsWith(normalized, EthTag) THEN Return(normalized)
         ELSE IF startsWith(normalized, XdcTag)
              THEN Return(EthTag \o sliceFrom(normalized, 3))
         ELSE IF Len(normalized) = PayloadLen THEN Return(EthTag \o normalized)
         ELSE Throw("Invalid address format")

\* faulty variant of addressesEqual: the raw strings are compared
addressesEqual_Raw(address1, address2) ==
    IF address1 = <<>> \/ address2 = <<>> THEN FALSE
    ELSE address1 = address2

addressesEqual(address1, address2) ==
    IF address1 = <<>> \/ address2 = <<>> THEN FALSE
    ELSE LET e1 == toEthAddress(address1)
             e2 == toEthAddress(address2)
         IN  IF e1.ok /\ e2.ok
             THEN toLowerCase(e1.val) = toLowerCase(e2.val)
             ELSE FALSE    \* catch { return false }

\* ethers.isAddress(value) for a value in lower case, which is what
\* toEthAddress returns: /^(0x)?[0-9a-f]{40}$/ (no checksum to verify, and no
\* ICAP form, both of which need capital letters)
ethers_isAddress(value) ==
    LET body == IF startsWith(value, EthTag) THEN sliceFrom(value, 2) ELSE value
    IN  /\ Len(body) = PayloadLen
        /\ \A i \in 1..Len(body) : IsDigit(body[i]) \/ body[i] \in {"a","b","c","d","e","f"}

\* faulty variant of isValidXdcAddress: whatever toEthAddress returns is valid
isValidXdcAddress_NoCheck(address) ==
    IF address = <<>> THEN FALSE
    ELSE toEthAddress(address).ok

isValidXdcAddress(address) ==
    IF address = <<>> THEN FALSE
    ELSE LET ethAddress == toEthAddress(address)
         IN  IF ethAddress.ok THEN ethers_isAddress(ethAddress.val)
             ELSE FALSE    \* catch { return false }

\* normalizeAddress(address, format = 'xdc')
normalizeAddress(address, format) ==
    IF format = "xdc" THEN toXdcAddress(address) ELSE toEthAddress(address)

\* case 'verifySignature' of the utility operations, from the address that
\* ethers.verifyMessage(message, signature) recovers: '0x' and 40 hex digits
\* in checksum case
verifySignature(recoveredAddress, expectedSigner) ==
    LET expectedNormalized == normalizeAddress(expectedSigner, "xdc")
    IN  IF ~expectedNormalized.ok THEN expectedNormalized
        ELSE Return([recoveredSigner |-> toXdcAddress(recoveredAddress).val,
                     expectedSigner |-> toXdcAddress(expectedSigner).val,
                     isValid |-> toLowerCase(recoveredAddress)
                                     = toLowerCase(expectedNormalized.val)])

(***************************************************************************)
(* Inputs of the address utilities                                         *)
(***************************************************************************)
MaxShort == 3     \* short bodies have 0..MaxShort characters
MaxDelta == 2     \* long bodies have PayloadLen-MaxDelta..PayloadLen+MaxDelta

LowerHexChars == {"a", "1"}
HexChars == LowerHexChars \cup {"A"}
BodyChars == HexChars \cup {"g"}

\* c once, then d up to length n
Body(n, c, d) == [i \in 1..n |-> IF i = 1 THEN c ELSE d]

BodyLens == (0..MaxShort) \cup ((PayloadLen - MaxDelta)..(PayloadLen + MaxDelta))
Tags == {<<>>, XdcTag, <<"X","D","C">>, EthTag, <<"0","X">>}

AddrInputs == {t \o Body(n, c, d) : t \in Tags, n \in BodyLens, c \in BodyChars, d \in BodyChars}
HexPayloads == {Body(PayloadLen, c, d) : c \in HexChars, d \in HexChars}
LowerHexPayloads == {Body(PayloadLen, c, d) : c \in LowerHexChars, d \in LowerHexChars}
ValidAddrs == {t \o p : t \in Tags, p \in HexPayloads}
PairInputs == ValidAddrs \cup {Body(n, "a", "g") : n \in 0..MaxShort}

\* what ethers.verifyMessage can return
RecoveredAddrs == {EthTag \o p : p \in HexPayloads}

AddrIdle == /\ aArgs = <<>>
            /\ aOp = "idle"
            /\ aRes = Throw("")

CallToXdcAddress ==
    /\ aOp = "none" /\ Len(aArgs) = 1
    /\ aOp' = "toXdcAddress"
    /\ aRes' = toXdcAddress(aArgs[1])
    /\ UNCHANGED <<aArgs, rewardVars, chainVars, callVars, triggerVars, unitVars, netVars, execVars>>

CallToEthAddress ==
    /\ aOp = "none" /\ Len(aArgs) = 1
    /\ aOp' = "toEthAddress"
    /\ aRes' = toEthAddress(aArgs[1])
    /\ UNCHANGED <<aArgs, rewardVars, chainVars, callVars, triggerVars, unitVars, netVars, execVars>>

CallAddressesEqual ==
    /\ aOp = "none" /\ Len(aArgs) = 2
    /\ aOp' = "addressesEqual"
    /\ aRes' = Return(addressesEqual(aArgs[1], aArgs[2]))
    /\ UNCHANGED <<aArgs, rewardVars, chainVars, callVars, triggerVars, unitVars, netVars, execVars>>

CallIsValidXdcAddress ==
    /\ aOp = "none" /\ Len(aArgs) = 1
    /\ aOp' = "isValidXdcAddress"
    /\ aRes' = Return(isValidXdcAddress(aArgs[1]))
    /\ UNCHANGED <<aArgs, rewardVars, chainVars, callVars, triggerVars, unitVars, netVars, execVars>>

\* the signature is the first address's signature of the message
CallVerifySignature ==
    /\ aOp = "none" /\ Len(aArgs) = 2
    /\ aArgs[1] \in RecoveredAddrs
    /\ aOp' = "verifySignature"
    /\ aRes' = verifySignature(aArgs[1], aArgs[2])
    /\ UNCHANGED <<aArgs, rewardVars, chainVars, callVars, triggerVars, unitVars, netVars, execVars>>

\* normalizeAddress(address), normalizeAddress(address, 'xdc') and
\* normalizeAddress(address, '0x')
CallNormalizeAddress ==
    /\ aOp = "none" /\ Len(aArgs) = 1
    /\ \/ /\ aOp' = "normalizeAddress"
          /\ aRes' = normalizeAddress(aArgs[1], "xdc")
       \/ \E format \in {"xdc", "0x"} :
             /\ aOp' = "normalizeAddress:" \o format
             /\ aRes' = normalizeAddress(aArgs[1], format)
    /\ UNCHANGED <<aArgs, rewardVars, chainVars, callVars, triggerVars, unitVars, netVars, execVars>>

(***************************************************************************)
(* XdcMasternodeClient.calculateEstimatedRewards                           *)
(***************************************************************************)
DefaultBlocksPerYear == 15768000
DaysPerYear == 365
MonthsPerYear == 12

\* ethers.parseEther('0.25')
rewardPerBlock == BMul(BFromInt(25), BPow10(EtherDecimals - 2))

Rewards(daily, monthly, yearly, apy) ==
    [ok |-> TRUE, err |-> "", daily |-> daily, monthly |-> monthly,
     yearly |-> yearly, apy |-> apy]
RewardsThrow(msg) ==
    [ok |-> FALSE, err |-> msg, daily |-> <<>>, monthly |-> <<>>,
     yearly |-> <<>>, apy |-> <<>>]

\* Number(yearlyRewards) * shareRatio, floored, as a bigint
userYearlyRewardsOf(stake, totalStake, blocksPerYear) ==
    LET shareRatio == FDiv(NumberOfBigInt(stake), NumberOfBigInt(totalStake))
        yearlyRewards == BMul(BFromInt(blocksPerYear), rewardPerBlock)
    IN  BigIntOfNumber(Math_floor(FMul(NumberOfBigInt(yearlyRewards), shareRatio)))

\* faulty variant of isZeroTotal: the guard is missing
isZeroTotal_Never(totalStake) == FALSE

\* the guard: if (totalStake === 0n)
isZeroTotal(totalStake) == totalStake = <<>>

calculateEstimatedRewards(stakeAmount, totalNetworkStake, blocksPerYear) ==
    LET stakeR == BigIntOfString(stakeAmount)
        totalR == BigIntOfString(totalNetworkStake)
    IN  IF ~stakeR.ok THEN RewardsThrow(stakeR.err)
        ELSE IF ~totalR.ok THEN RewardsThrow(totalR.err)
        ELSE IF isZeroTotal(totalR.val)
             THEN Rewards(<<"0">>, <<"0">>, <<"0">>, <<"0">>)
        ELSE LET stake == stakeR.val
                 userYearlyR == userYearlyRewardsOf(stake, totalR.val, blocksPerYear)
             IN  IF ~userYearlyR.ok THEN RewardsThrow(userYearlyR.err)
                 ELSE LET userYearlyRewards == userYearlyR.val
                          dailyRewards == BDivSmall(userYearlyRewards, DaysPerYear)
                          monthlyRewards == BDivSmall(userYearlyRewards, MonthsPerYear)
                          apy == FMul(FDiv(NumberOfBigInt(userYearlyRewards),
                                           NumberOfBigInt(stake)),
                                      NumberOfBigInt(BFromInt(100)))
                      IN  Rewards(weiToXdc(dailyRewards), weiToXdc(monthlyRewards),
                                  weiToXdc(userYearlyRewards), toFixed(apy, 2))

MaxZeros == 27     \* amounts are a leading digit followed by up to MaxZeros zeros

LeadDigits == {"1", "7"}
\* every third number of zeros, down from MaxZeros (10^27 wei is 10^9 XDC)
ZeroCounts == {k \in 0..MaxZeros : (MaxZeros - k) % 3 = 0}
AmountInputs == {<<"0">>} \cup {<<d>> \o Zeros(k) : d \in LeadDigits, k \in ZeroCounts}

RewardIdle == /\ rArgs = <<>>
              /\ rOp = "idle"
              /\ rRes = RewardsThrow("")

CallCalculateEstimatedRewards ==
    /\ rOp = "none"
    /\ rOp' = "calculateEstimatedRewards"
    /\ rRes' = calculateEstimatedRewards(rArgs[1], rArgs[2], rArgs[3])
    /\ UNCHANGED <<rArgs, addrVars, chainVars, callVars, triggerVars, unitVars, netVars, execVars>>

(***************************************************************************)
(* The chain: its height and the validator contract's view functions       *)
(***************************************************************************)
epochBlocks == 900
MaxValidators == 108

\* a bigint below 10^12 as a TLA+ integer
BToInt(a) == Limb(a, 1) + 10000 * Limb(a, 2) + 100000000 * Limb(a, 3)

\* Math.floor(a / b) for Numbers a >= 0 and b > 0 that are integers.  The
\* binary64 quotient rounds to within half an ulp of a / b, which for b = 900
\* and every a up to 2^53 cannot reach the next integer, so that its floor is
\* the integer quotient.
floorOfQuotient(a, b) == a \div b

NoAccount == 0
OwnerBase == 500
VoterBase == 700

\* The address of account n as the RPC returns it: 0x and 40 hex digits in
\* mixed (checksum) case.
AccountPayload(n) ==
    (IF n % 2 = 0 THEN <<"A","b">> ELSE <<"a","B">>)
        \o Zeros(PayloadLen - 5)
        \o <<DigitChar((n \div 100) % 10), DigitChar((n \div 10) % 10), DigitChar(n % 10)>>
ChainAddress(n) == IF n = NoAccount THEN EthTag \o Zeros(PayloadLen)
                   ELSE EthTag \o AccountPayload(n)

\* the account an address (in 0x form, any letter case) belongs to
AccountOf(ethAddress) ==
    LET k == Len(ethAddress)
    IN  100 * DigitVal(ethAddress[k - 2]) + 10 * DigitVal(ethAddress[k - 1])
            + DigitVal(ethAddress[k])

Listed(n) == \E i \in DOMAIN candidates : candidates[i] = n

\* An upstream query is named by the function called and the account it is
\* called about (NoAccount when it has no such argument); upFail holds the
\* queries that reject.
Query(q, n) == [q |-> q, n |-> n]
Fails(q, n) == Query(q, n) \in upFail
UpstreamError == "upstream query failed"

\* validatorContract.getCandidates()
contract_getCandidates == [i \in DOMAIN candidates |-> ChainAddress(candidates[i])]
\* validatorContract.getCandidateCap(address), in wei
contract_getCandidateCap(ethAddress) ==
    LET n == AccountOf(ethAddress)
    IN  IF Listed(n) THEN BMulPow10(BFromInt(capOf[n]), EtherDecimals) ELSE <<>>
\* validatorContract.getCandidateOwner(address)
contract_getCandidateOwner(ethAddress) ==
    LET n == AccountOf(ethAddress)
    IN  IF Listed(n) THEN ChainAddress(OwnerBase + n) ELSE ChainAddress(NoAccount)
\* validatorContract.isCandidate(address)
contract_isCandidate(ethAddress) == AccountOf(ethAddress) \in isCand
\* validatorContract.getVoters(address)
contract_getVoters(ethAddress) ==
    LET n == AccountOf(ethAddress)
    IN  IF Listed(n) THEN [i \in 1..(n % 3) |-> ChainAddress(VoterBase + i)] ELSE <<>>

\* validatorContract.getVoterCap(candidate, voter), in wei: the stakes of
\* the one voter that has voted
contract_getVoterCap(candidateEth, voterEth) ==
    LET n == AccountOf(candidateEth)
    IN  IF AccountOf(voterEth) = VoterBase + 1 /\ n \in DOMAIN voterCap
        THEN voterCap[n] ELSE <<>>

(***************************************************************************)
(* XdcMasternodeClient: read methods                                       *)
(***************************************************************************)
NoSeen == [currentBlock |-> 0, isCandidate |-> FALSE]

\* candidates.map(addr => toXdcAddress(addr))
getCandidates == LET cands == contract_getCandidates
                 IN  [i \in DOMAIN cands |-> toXdcAddress(cands[i]).val]

getVotersForCandidate(candidateAddress) ==
    LET voters == contract_getVoters(toEthAddress(candidateAddress).val)
    IN  [i \in DOMAIN voters |-> toXdcAddress(voters[i]).val]

\* faulty variant of isValidatorOf: the whole list is searched
isValidatorOf_NoSlice(cands, ethAddress) ==
    LET lowered == [i \in DOMAIN cands |-> toLowerCase(cands[i])]
    IN  \E i \in DOMAIN lowered : lowered[i] = toLowerCase(ethAddress)

\* candidates.map(a => a.toLowerCase()).slice(0, 108).includes(ethAddress.toLowerCase())
isValidatorOf(cands, ethAddress) ==
    LET lowered == [i \in DOMAIN cands |-> toLowerCase(cands[i])]
        firsts == slicePrefix(lowered, MaxValidators)
    IN  \E i \in DOMAIN firsts : firsts[i] = toLowerCase(ethAddress)

\* faulty variant of statusOf: isValidator is tested first
statusOf_ValidatorFirst(isCandidate, isValidator) ==
    IF isValidator THEN "active"
    ELSE IF ~isCandidate THEN "resigned" ELSE "proposed"

\* !isCandidate ? 'resigned' : isValidator ? 'active' : 'proposed'
statusOf(isCandidate, isValidator) ==
    IF ~isCandidate THEN "resigned"
    ELSE IF isValidator THEN "active" ELSE "proposed"

\* faulty variant of masternodeQueriesFail: a failed voter query is ignored
masternodeQueriesFail_NoVoters(ethAddress) ==
    LET n == AccountOf(ethAddress)
    IN  \/ Fails("getCandidateCap", n)
        \/ Fails("getCandidateOwner", n)
        \/ Fails("isCandidate", n)
        \/ Fails("getCandidates", NoAccount)

\* one of the awaited queries of getMasternodeInfo rejects: the four of
\* Promise.all, or getVoters
masternodeQueriesFail(ethAddress) ==
    LET n == AccountOf(ethAddress)
    IN  \/ Fails("getCandidateCap", n)
        \/ Fails("getCandidateOwner", n)
        \/ Fails("isCandidate", n)
        \/ Fails("getCandidates", NoAccount)
        \/ Fails("getVoters", n)

getMasternodeInfo(candidateAddress) ==
    LET ethR == toEthAddress(candidateAddress)
    IN  IF ~ethR.ok THEN Throw(ethR.err)
        ELSE IF masternodeQueriesFail(ethR.val) THEN Throw(UpstreamError)
        ELSE LET ethAddress == ethR.val
                 stake == contract_getCandidateCap(ethAddress)
                 owner == contract_getCandidateOwner(ethAddress)
                 isCandidate == contract_isCandidate(ethAddress)
                 voters == getVotersForCandidate(candidateAddress)
                 isValidator == isValidatorOf(contract_getCandidates, ethAddress)
             IN  Return([address |-> toXdcAddress(candidateAddress).val,
                         owner |-> toXdcAddress(owner).val,
                         stake |-> BToString(stake),
                         stakeXdc |-> weiToXdc(stake),
                         voterCount |-> Len(voters),
                         isValidator |-> isValidator,
                         status |-> statusOf(isCandidate, isValidator)])

\* faulty variant of epochOf: the quotient is rounded up
epochOf_RoundedUp(epochNumber, currentBlock) ==
    IF epochNumber # <<>> THEN epochNumber[1]
    ELSE floorOfQuotient(currentBlock + epochBlocks - 1, epochBlocks)

\* epochNumber !== undefined ? epochNumber : Math.floor(currentBlock / epochBlocks)
epochOf(epochNumber, currentBlock) ==
    IF epochNumber # <<>> THEN epochNumber[1]
    ELSE floorOfQuotient(currentBlock, epochBlocks)

\* epoch * epochBlocks
startBlockOf(epoch) == epoch * epochBlocks

\* faulty variant of endBlockOf: the first block of the next epoch
endBlockOf_NextStart(startBlock) == startBlock + epochBlocks

\* startBlock + epochBlocks - 1
endBlockOf(startBlock) == startBlock + epochBlocks - 1

\* faulty variant of validatorSetOf: one entry too many
validatorSetOf_OneMore(cands) == slicePrefix(cands, MaxValidators + 1)

\* candidates.slice(0, 108)
validatorSetOf(cands) == slicePrefix(cands, MaxValidators)

Math_min(a, b) == IF a <= b THEN a ELSE b

\* BigInt(n) * parseEther('0.25'), as a sign and a magnitude
SignOf(n) == IF n < 0 THEN <<"-">> ELSE <<>>
MagOf(n) == BMul(BFromInt(IF n < 0 THEN 0 - n ELSE n), rewardPerBlock)

\* getEpochInfo(epochNumber?) at the height the call reads; epochNumber is
\* <<>> when the argument is omitted and <<n>> when it is n
getEpochInfo(epochNumber, currentBlock) ==
    IF Fails("getBlockNumber", NoAccount) \/ Fails("getCandidates", NoAccount)
    THEN Throw(UpstreamError) ELSE
    LET epoch == epochOf(epochNumber, currentBlock)
        startBlock == startBlockOf(epoch)
        endBlock == endBlockOf(startBlock)
        validatorSet == validatorSetOf(getCandidates)
        blocksInEpoch == Math_min(endBlock, currentBlock) - startBlock + 1
    IN  Return([number |-> epoch,
                startBlock |-> startBlock,
                endBlock |-> endBlock,
                validatorSet |-> validatorSet,
                rewards |-> SignOf(blocksInEpoch) \o BToString(MagOf(blocksInEpoch)),
                rewardsXdc |-> SignOf(blocksInEpoch) \o weiToXdc(MagOf(blocksInEpoch))])

\* Math.floor(currentBlock / 900)
getCurrentEpoch(currentBlock) ==
    IF Fails("getBlockNumber", NoAccount) THEN Throw(UpstreamError)
    ELSE Return(floorOfQuotient(currentBlock, epochBlocks))

\* case 'getEpochInfo' of the masternode operations: the item built from the
\* EpochInfo of masternodeClient.getEpochInfo() and from the height that the
\* provider.getBlockNumber() after it returns
nodeGetEpochInfo(epochInfo, currentBlock) ==
    IF ~epochInfo.ok THEN epochInfo
    ELSE IF Fails("getBlockNumber", NoAccount) THEN Throw(UpstreamError)
    ELSE Return([currentEpoch |-> epochInfo.val.number,
                 startBlock |-> epochInfo.val.startBlock,
                 endBlock |-> epochInfo.val.endBlock,
                 blocksPerEpoch |-> 900,
                 currentBlock |-> currentBlock,
                 blocksRemaining |-> epochInfo.val.endBlock - currentBlock,
                 validatorCount |-> Len(epochInfo.val.validatorSet),
                 rewards |-> epochInfo.val.rewardsXdc])

\* faulty variant of voterLoop: a failed stake query ends the call
RECURSIVE voterLoop_FailFast(_, _, _, _, _)
voterLoop_FailFast(cands, i, ethAddress, votedFor, totalVoted) ==
    IF i > Len(cands) THEN Return([votedFor |-> votedFor, totalVoted |-> totalVoted])
    ELSE LET candidate == cands[i]
             candidateEth == toEthAddress(candidate).val
         IN  IF Fails("getVoterCap", AccountOf(candidateEth))
             THEN Throw(UpstreamError)
             ELSE LET stake == contract_getVoterCap(candidateEth, ethAddress)
                  IN  IF stake # <<>>
                      THEN voterLoop_FailFast(cands, i + 1, ethAddress,
                                              Append(votedFor, candidate),
                                              BAdd(totalVoted, stake))
                      ELSE voterLoop_FailFast(cands, i + 1, ethAddress, votedFor, totalVoted)

\* for (const candidate of candidates) { try { ... } catch { } }, from the
\* i-th candidate on
RECURSIVE voterLoop(_, _, _, _, _)
voterLoop(cands, i, ethAddress, votedFor, totalVoted) ==
    IF i > Len(cands) THEN Return([votedFor |-> votedFor, totalVoted |-> totalVoted])
    ELSE LET candidate == cands[i]
             candidateEth == toEthAddress(candidate).val
         IN  IF Fails("getVoterCap", AccountOf(candidateEth))
             THEN voterLoop(cands, i + 1, ethAddress, votedFor, totalVoted)   \* skip if error
             ELSE LET stake == contract_getVoterCap(candidateEth, ethAddress)
                  IN  IF stake # <<>>    \* stake > 0n
                      THEN voterLoop(cands, i + 1, ethAddress,
                                     Append(votedFor, candidate),
                                     BAdd(totalVoted, stake))
                      ELSE voterLoop(cands, i + 1, ethAddress, votedFor, totalVoted)

getVoterInfo(voterAddress) ==
    LET ethR == toEthAddress(voterAddress)
    IN  IF ~ethR.ok THEN Throw(ethR.err)
        ELSE IF Fails("getCandidates", NoAccount) THEN Throw(UpstreamError)
        ELSE LET looped == voterLoop(getCandidates, 1, ethR.val, <<>>, <<>>)
             IN  IF ~looped.ok THEN looped
                 ELSE Return([address |-> toXdcAddress(voterAddress).val,
                              votedFor |-> looped.val.votedFor,
                              totalVoted |-> BToString(looped.val.totalVoted),
                              totalVotedXdc |-> weiToXdc(looped.val.totalVoted),
                              rewards |-> <<"0">>,
                              rewardsXdc |-> <<"0">>])

(***************************************************************************)
(* XdcMasternodeClient.getMasternodesList.  The per-candidate fetches are  *)
(* started together and complete one at a time, in any order; lResults     *)
(* keeps, for each position of the limited candidate list, the address     *)
(* fetched, whether the fetch has completed, as which one in time, and     *)
(* what it gave.                                                           *)
(***************************************************************************)
DefaultLimit == 108

\* s < t for strings of digits, as < compares strings
RECURSIVE DigitsLess(_, _)
DigitsLess(s, t) ==
    IF t = <<>> THEN FALSE
    ELSE IF s = <<>> THEN TRUE
    ELSE IF s[1] # t[1] THEN DigitVal(s[1]) < DigitVal(t[1])
    ELSE DigitsLess(Tail(s), Tail(t))

\* faulty variant of compareByStake: the stake strings are compared
compareByStake_AsStrings(a, b) ==
    IF DigitsLess(b.stake, a.stake) THEN -1
    ELSE IF DigitsLess(a.stake, b.stake) THEN 1
    ELSE 0

\* the comparator of the sort: BigInt(a.stake) against BigInt(b.stake)
compareByStake(a, b) ==
    LET stakeA == BParse(a.stake)
        stakeB == BParse(b.stake)
    IN  IF BLess(stakeB, stakeA) THEN -1
        ELSE IF BLess(stakeA, stakeB) THEN 1
        ELSE 0

\* Array.prototype.sort is stable: x goes behind everything that does not
\* sort after it
RECURSIVE insertSorted(_, _)
insertSorted(sorted, x) ==
    IF sorted = <<>> THEN <<x>>
    ELSE IF compareByStake(Head(sorted), x) <= 0
         THEN <<Head(sorted)>> \o insertSorted(Tail(sorted), x)
         ELSE <<x>> \o sorted

RECURSIVE sortFrom(_, _, _)
sortFrom(ms, i, sorted) ==
    IF i > Len(ms) THEN sorted
    ELSE sortFrom(ms, i + 1, insertSorted(sorted, ms[i]))

\* masternodes.sort((a, b) => ...)
sortByStake(ms) == sortFrom(ms, 1, <<>>)

\* faulty variant of masternodesOf: the records in the order the fetches
\* completed
masternodesOf_ByCompletion(results) ==
    [k \in DOMAIN results |->
        results[CHOOSE i \in DOMAIN results : results[i].at = k].res.val]

\* what Promise.all resolves to: the records in the order of the promises
masternodesOf(results) == [i \in DOMAIN results |-> results[i].res.val]

NotFetched(addr) == [addr |-> addr, done |-> FALSE, at |-> 0, res |-> Throw("")]
Fetched(addr, at, res) == [addr |-> addr, done |-> TRUE, at |-> at, res |-> res]

(***************************************************************************)
(* XdcMasternodeClient: write methods.  A call gives what it returned or   *)
(* threw and the transaction it submitted, if any.                         *)
(***************************************************************************)
\* provider.hasSigner()
hasSigner == signer

\* provider.getWritableContract: throws without a signer
getWritableContract ==
    IF ~signer THEN Throw("Signer required for writable contracts") ELSE Return("contract")

NoTx == <<>>
Outcome(res, tx) == [res |-> res, tx |-> tx]

\* faulty variant of writeCall: neither check for a signer is made
writeCall_Unguarded(what, args, tx) ==
    IF \E i \in DOMAIN args : ~args[i].ok
    THEN Outcome(Throw(args[CHOOSE i \in DOMAIN args :
                            ~args[i].ok /\ \A j \in 1..(i - 1) : args[j].ok].err), NoTx)
    ELSE Outcome(Return(tx), <<tx>>)

\* the body the five write methods share: the signer check, the writable
\* contract, the arguments (evaluated in order), the call
writeCall(what, args, tx) ==
    IF ~hasSigner THEN Outcome(Throw("Signer required to " \o what), NoTx)
    ELSE IF ~getWritableContract.ok THEN Outcome(Throw(getWritableContract.err), NoTx)
    ELSE IF \E i \in DOMAIN args : ~args[i].ok
    THEN Outcome(Throw(args[CHOOSE i \in DOMAIN args :
                            ~args[i].ok /\ \A j \in 1..(i - 1) : args[j].ok].err), NoTx)
    ELSE Outcome(Return(tx), <<tx>>)

\* unitConverter.xdcToWei
xdcToWei(xdcValue) == parseUnits(xdcValue, EtherDecimals)

Tx(method, args) == [method |-> method, args |-> args]
ArgVal(r) == IF r.ok THEN r.val ELSE <<>>

propose(candidateAddress, stakeAmount) ==
    LET a == toEthAddress(candidateAddress)
        v == xdcToWei(stakeAmount)
    IN  writeCall("propose candidacy", <<a, v>>, Tx("propose", <<ArgVal(a), ArgVal(v)>>))

vote(candidateAddress, amount) ==
    LET a == toEthAddress(candidateAddress)
        v == xdcToWei(amount)
    IN  writeCall("vote", <<a, v>>, Tx("vote", <<ArgVal(a), ArgVal(v)>>))

unvote(candidateAddress, amount) ==
    LET a == toEthAddress(candidateAddress)
        v == xdcToWei(amount)
    IN  writeCall("unvote", <<a, v>>, Tx("unvote", <<ArgVal(a), ArgVal(v)>>))

resign(candidateAddress) ==
    LET a == toEthAddress(candidateAddress)
    IN  writeCall("resign", <<a>>, Tx("resign", <<ArgVal(a)>>))

withdraw(blockNumberArg, index) ==
    writeCall("withdraw", <<>>, Tx("withdraw", <<blockNumberArg, index>>))

\* executeMasternodeOperation, cases 'vote', 'unvote' and 'withdraw': the
\* credentials' private key is the one the provider made its signer from
nodeVote(masternodeAddress, stakeAmount) ==
    IF ~signer THEN Outcome(Throw("Private key required for voting"), NoTx)
    ELSE IF ~isValidXdcAddress(masternodeAddress)
    THEN Outcome(Throw("Invalid masternode address"), NoTx)
    ELSE vote(masternodeAddress, stakeAmount)

nodeUnvote(masternodeAddress, unvoteAmount) ==
    IF ~signer THEN Outcome(Throw("Private key required for unvoting"), NoTx)
    ELSE unvote(masternodeAddress, unvoteAmount)

nodeWithdraw(withdrawBlockNumber, withdrawIndex) ==
    IF ~signer THEN Outcome(Throw("Private key required for withdrawal"), NoTx)
    ELSE withdraw(withdrawBlockNumber, withdrawIndex)

(***************************************************************************)
(* XdcTrigger.poll (events newBlock, newEpoch and tokenTransfer) and the    *)
(* block operations getLatestBlock and getBlock (decimal block             *)
(* identifiers).  Of an emitted item or a returned block the fields kept   *)
(* are its number, its epoch and its block range.  Every awaited provider  *)
(* request of a poll may reject; the event newTransaction is not modelled. *)
(***************************************************************************)
MaxResults == 10

\* faulty variant of pollNewBlock: the last processed block is fetched again
pollNewBlock_FromLast(last, currentBlock) ==
    LET fromBlock == IF last > 0 THEN last ELSE currentBlock
        count == Math_min(currentBlock - fromBlock + 1, MaxResults)
    IN  [i \in 1..count |->
            [blockNumber |-> fromBlock + i - 1,
             epoch |-> floorOfQuotient(fromBlock + i - 1, 900)]]

\* case 'newBlock': one item per block from fromBlock on, at most ten
pollNewBlock(last, currentBlock) ==
    LET fromBlock == IF last > 0 THEN last + 1 ELSE currentBlock
        count == Math_min(currentBlock - fromBlock + 1, MaxResults)
    IN  [i \in 1..count |->
            [blockNumber |-> fromBlock + i - 1,
             epoch |-> floorOfQuotient(fromBlock + i - 1, 900)]]

\* case 'newEpoch': one item when the epoch of the head has advanced
pollNewEpoch(last, currentBlock) ==
    LET currentEpoch == floorOfQuotient(currentBlock, 900)
        lastEpoch == floorOfQuotient(last, 900)
    IN  IF currentEpoch > lastEpoch
        THEN << [epoch |-> currentEpoch,
                 startBlock |-> currentEpoch * 900,
                 endBlock |-> currentEpoch * 900 + 899] >>
        ELSE <<>>

\* case 'tokenTransfer' with a watch address: one item per Transfer log of
\* the range that names the watch address; the chain holds no such log
pollTokenTransfer(last, currentBlock) == <<>>

\* the items of a poll that sees currentBlock > lastProcessedBlock
pollItems(event, last, currentBlock) ==
    CASE event = "newBlock" -> pollNewBlock(last, currentBlock)
      [] event = "newEpoch" -> pollNewEpoch(last, currentBlock)
      [] event = "tokenTransfer" -> pollTokenTransfer(last, currentBlock)

\* the requests such a poll makes after getBlockNumber: a getBlock for each
\* new block, a getBlock for the first block of a new epoch, or a getLogs
pollCalls(event, last, currentBlock) ==
    CASE event = "newBlock" -> Len(pollNewBlock(last, currentBlock))
      [] event = "newEpoch" -> Len(pollNewEpoch(last, currentBlock))
      [] event = "tokenTransfer" -> 1

\* the k-th request from the start succeeds unless the network fails it
NetOk(k) == k > Len(net) \/ net[k]

\* of the next n requests, the first that fails (0: none does)
FirstFailure(n) ==
    LET bad == {k \in 1..n : ~NetOk(requests + k)}
    IN  IF bad = {} THEN 0 ELSE CHOOSE k \in bad : \A j \in bad : k <= j

\* the position in the network's outcomes after n more requests
Requested(n) == Math_min(requests + n, Len(net))

NetworkError == "network error"

\* faulty variant of lastAfterThrow: the height is stored before the switch
lastAfterThrow_StoredEarly(last, currentBlock, failed) ==
    IF failed > 1 THEN currentBlock ELSE last

\* workflowStaticData.lastProcessedBlock after a poll whose failed-th request
\* threw: line 210 was not reached
lastAfterThrow(last, currentBlock, failed) == last

\* XdcTrigger.poll: the items returned, the error thrown, the height stored
\* and the number of requests made
poll(event, last, currentBlock) ==
    LET calls == IF currentBlock <= last THEN 0 ELSE pollCalls(event, last, currentBlock)
        failed == FirstFailure(1 + calls)
    IN  IF failed > 0
        THEN [items |-> <<>>, err |-> NetworkError,
              last |-> lastAfterThrow(last, currentBlock, failed), made |-> failed]
        ELSE IF currentBlock <= last
        THEN [items |-> <<>>, err |-> "", last |-> last, made |-> 1]
        ELSE [items |-> pollItems(event, last, currentBlock), err |-> "",
              last |-> currentBlock, made |-> 1 + calls]

\* the block number or the epoch number an emitted item is about
itemKey(item) ==
    IF "blockNumber" \in DOMAIN item THEN item.blockNumber ELSE item.epoch

\* parseInt(blockIdentifier) for a string of decimal digits
parseInt(s) == BToInt(BParse(s))

\* the fields number and epoch of the object the block operations return
blockResult(number) == [number |-> number, epoch |-> floorOfQuotient(number, 900)]

(***************************************************************************)
(* Xdc.execute and the operations its items select.  An item is the node   *)
(* parameters that getNodeParameter(name, i) returns for it.               *)
(***************************************************************************)
\* case 'convertAddress' of the utility operations
utilityConvertAddress(address, targetFormat) ==
    IF ~isValidXdcAddress(address) THEN Throw("Invalid address format")
    ELSE LET converted == IF targetFormat = "xdc" THEN toXdcAddress(address)
                          ELSE toEthAddress(address)
         IN  Return(<< [json |-> [original |-> address, converted |-> converted.val,
                                  format |-> targetFormat]] >>)

\* case 'getLatestBlock' of the block operations: one provider request
blockGetLatestBlock ==
    IF ~NetOk(requests + 1) THEN Throw(NetworkError)
    ELSE Return(<< [json |-> blockResult(blockNumber)] >>)

\* XdcExplorerApi.request: one GET; an AxiosError is thrown on as an Error
explorerRequest(result) ==
    IF ~NetOk(requests + 1) THEN Throw("Explorer API error: " \o NetworkError)
    ELSE Return(result)

\* case 'getBlockReward' of the block operations with xdcScan credentials:
\* the item is what the explorer answers for the block
blockGetBlockReward(blockIdentifier) ==
    LET reward == explorerRequest([blockNumber |-> blockIdentifier])
    IN  IF reward.ok THEN Return(<< [json |-> reward.val] >>) ELSE reward

\* the switch on resource, and the switch on operation of the resource
itemOperation(item) ==
    CASE item.resource = "utility" /\ item.operation = "convertAddress" ->
             utilityConvertAddress(item.address, item.targetFormat)
      [] item.resource = "block" /\ item.operation = "getLatestBlock" ->
             blockGetLatestBlock
      [] item.resource = "block" /\ item.operation = "getBlockReward" ->
             blockGetBlockReward(item.blockIdentifier)
      [] item.resource \in {"utility", "block"} /\
         item.operation \notin {"convertAddress", "getLatestBlock", "getBlockReward"} ->
             Throw("Unknown operation: " \o item.operation)
      [] OTHER -> Throw("Unknown resource: " \o item.resource)

\* the requests the operation of an item makes
itemRequests(item) ==
    IF item.resource = "block" /\ item.operation \in {"getLatestBlock", "getBlockReward"}
    THEN 1 ELSE 0

\* the record pushed in the catch block when continueOnFail() is true
errorRecord(msg, i) ==
    [json |-> [error |-> msg], pairedItem |-> [item |-> i]]

Running == [state |-> "running", error |-> ""]
Returned == [state |-> "returned", error |-> ""]
Thrown(msg) == [state |-> "thrown", error |-> msg]

\* faulty variant of executeItem: after a failure the loop is left
executeItem_StopsAtFailure(items, i, returnData, continueOnFail) ==
    LET result == itemOperation(items[i + 1])
    IN  IF result.ok
        THEN [returnData |-> returnData \o result.val, status |-> Running, i |-> i + 1]
        ELSE IF continueOnFail
        THEN [returnData |-> Append(returnData, errorRecord(result.err, i)),
              status |-> Running, i |-> Len(items)]
        ELSE [returnData |-> returnData, status |-> Thrown(result.err), i |-> i]

\* one iteration of the loop of execute, for the item of index i
executeItem(items, i, returnData, continueOnFail) ==
    LET result == itemOperation(items[i + 1])
    IN  IF result.ok
        THEN [returnData |-> returnData \o result.val, status |-> Running, i |-> i + 1]
        ELSE IF continueOnFail
        THEN [returnData |-> Append(returnData, errorRecord(result.err, i)),
              status |-> Running, i |-> i + 1]
        ELSE [returnData |-> returnData, status |-> Thrown(result.err), i |-> i]

(***************************************************************************)
(* Inputs and actions                                                      *)
(***************************************************************************)
MaxStartEpoch == 2   \* the chain starts in epoch 0..MaxStartEpoch
MaxMine == 2         \* the chain grows at most MaxMine times
MaxEpochArg == 3     \* getEpochInfo is asked for epochs up to MaxEpochArg,
MaxNegEpoch == 1     \* and down to -MaxNegEpoch
MaxExtra == 2        \* candidate lists have up to MaxValidators + MaxExtra entries
MaxNet == 3          \* after MaxNet requests the network fails no request
MaxItems == 3        \* execute is given up to MaxItems input items

StartOffsets == {0, 50, epochBlocks - 1}
StartHeights == {e * epochBlocks + o : e \in 0..MaxStartEpoch, o \in StartOffsets}
MineSteps == {1, epochBlocks}

CandLens == {0, 1} \cup ((MaxValidators - 1)..(MaxValidators + MaxExtra))
CandidateLists == {[i \in 1..L |-> i] : L \in CandLens}
                      \cup {[i \in 1..L |-> L + 1 - i] : L \in CandLens}
AllAccounts == 1..(MaxValidators + MaxExtra + 1)
QueryAccounts == {1, 2} \cup ((MaxValidators - 1)..(MaxValidators + MaxExtra + 1))
QueryAddrs == {t \o p : t \in Tags,
                        p \in UNION {{AccountPayload(n), toLowerCase(AccountPayload(n))} :
                                         n \in QueryAccounts}}
EpochArgs == {<<>>} \cup {<<n>> : n \in (0 - MaxNegEpoch)..MaxEpochArg}

MaxCands == 3        \* the aggregating calls see up to MaxCands candidates
MaxSent == 2         \* at most MaxSent write transactions are submitted

\* candidate lists: the accounts 1..MaxCands in three orders, cut short
BaseOrders == {[i \in 1..MaxCands |-> i],
               [i \in 1..MaxCands |-> MaxCands + 1 - i],
               [i \in 1..MaxCands |-> (i % MaxCands) + 1]}
ShortLists == {SubSeq(b, 1, L) : b \in BaseOrders, L \in 0..MaxCands}

\* stakes in whole XDC: different numbers of digits, and ties
StakeChoices == <<9, 10, 100>>
\* a voter's stakes in wei: nothing, one wei, 2^53 + 1 wei
VoteChoices == << <<>>, BFromInt(1), BAdd(BPow2(MantBits), BFromInt(1)) >>
Profiles ==
    {[capOf |-> [n \in 1..MaxCands |-> StakeChoices[((n + k) % 3) + 1]],
      voterCap |-> [n \in 1..MaxCands |-> VoteChoices[((n + k) % 3) + 1]]] : k \in 0..2}
    \cup {[capOf |-> [n \in 1..MaxCands |-> 10],
           voterCap |-> [n \in 1..MaxCands |-> VoteChoices[3]]],
          [capOf |-> [n \in 1..MaxCands |-> IF n = 1 THEN 9 ELSE 10],
           voterCap |-> [n \in 1..MaxCands |-> VoteChoices[1]]]}

\* what fails upstream: nothing, one query, or some of the voter's stake
\* queries
FailSets ==
    {{}}
    \cup {{Query(q, NoAccount)} : q \in {"getBlockNumber", "getCandidates"}}
    \cup {{Query(q, n)} : q \in {"getCandidateCap", "getCandidateOwner",
                                 "isCandidate", "getVoters"},
                          n \in {1, MaxCands}}
    \cup {{Query("getVoterCap", n) : n \in S} :
              S \in {{1}, {MaxCands}, 1..MaxCands, 2..MaxCands}}

LimitArgs == {<<>>} \cup {<<n>> : n \in {0, MaxCands - 1, MaxCands + 1}}
VoterAddrs == {XdcTag \o toLowerCase(AccountPayload(VoterBase + 1)),
               EthTag \o AccountPayload(VoterBase + 1),
               XdcTag \o toLowerCase(AccountPayload(VoterBase + 2)),
               <<"b", "a", "d">>}
WriteAddrs == {XdcTag \o toLowerCase(AccountPayload(1)),
               EthTag \o AccountPayload(2),
               <<"b", "a", "d">>}
WriteAmounts == {<<"1">>, <<"0", ".", "5">>, <<"a", "b", "c">>}

\* the outcomes of the first requests: all succeed, or the last of them fails
NetTapes == {<<>>} \cup {t \in UNION {[1..n -> BOOLEAN] : n \in 1..MaxNet} : ~t[Len(t)]}
TriggerEvents == {"newBlock", "newEpoch", "tokenTransfer"}

\* the parameters of an input item: two address conversions (one of them of
\* an invalid address), two operations that make a request, and a resource
\* the node does not have
ItemChoices ==
    { [resource |-> "utility", operation |-> "convertAddress",
       address |-> XdcTag \o AccountPayload(1), targetFormat |-> "0x"],
      [resource |-> "utility", operation |-> "convertAddress",
       address |-> <<"b", "a", "d">>, targetFormat |-> "xdc"],
      [resource |-> "block", operation |-> "getLatestBlock"],
      [resource |-> "block", operation |-> "getBlockReward", blockIdentifier |-> <<"9", "0", "0">>],
      [resource |-> "storage", operation |-> "upload"] }
ItemLists == UNION {[1..n -> ItemChoices] : n \in 0..MaxItems}

\* every candidate has staked 10,000,000 XDC and a little more
DefaultCaps == [n \in AllAccounts |-> 10000000 + n]

\* nothing fails upstream, no private key is configured, nothing was sent
ChainDefaults == /\ capOf = DefaultCaps
                 /\ voterCap = <<>>
                 /\ upFail = {}
                 /\ signer = FALSE
                 /\ sent = <<>>
ChainIdle == /\ blockNumber = 0
             /\ mined = 0
             /\ candidates = <<>>
             /\ isCand = {}
             /\ capOf = <<>>
             /\ voterCap = <<>>
             /\ upFail = {}
             /\ signer = FALSE
             /\ sent = <<>>
CallIdle == /\ cOp = "idle"
            /\ cArgs = <<>>
            /\ cRes = Throw("")
            /\ cSeen = NoSeen
            /\ lPending = {}
            /\ lResults = <<>>
UnitIdle == /\ uArgs = <<>>
            /\ uOp = "idle"
            /\ uRes = Throw("")
TriggerIdle == /\ lastProcessedBlock = 0
               /\ tEvent = "idle"
               /\ tOut = <<>>
               /\ tErr = ""
               /\ tEmitted = <<>>
               /\ tFirst = 0 - 1
\* every request succeeds
NetIdle == /\ net = <<>>
           /\ requests = 0
ExecIdle == /\ xItems = <<>>
            /\ xCont = FALSE
            /\ xI = 0
            /\ xOut = <<>>
            /\ xStatus = [state |-> "idle", error |-> ""]

\* the chain grows by one block, or by a whole epoch
Mine ==
    /\ mined < MaxMine
    /\ \E k \in MineSteps : blockNumber' = blockNumber + k
    /\ mined' = mined + 1
    /\ UNCHANGED <<candidates, isCand, capOf, voterCap, upFail, signer, sent, callVars, triggerVars, addrVars, rewardVars, unitVars, netVars, execVars>>

ClientGetEpochInfo ==
    /\ cOp = "none"
    /\ \E epochNumber \in EpochArgs :
           /\ cArgs' = epochNumber
           /\ cRes' = getEpochInfo(epochNumber, blockNumber)
    /\ cOp' = "getEpochInfo"
    /\ cSeen' = [NoSeen EXCEPT !.currentBlock = blockNumber]
    /\ UNCHANGED <<listVars, chainVars, triggerVars, addrVars, rewardVars, unitVars, netVars, execVars>>

ClientGetCurrentEpoch ==
    /\ cOp = "none"
    /\ cOp' = "getCurrentEpoch"
    /\ cArgs' = <<>>
    /\ cRes' = getCurrentEpoch(blockNumber)
    /\ cSeen' = [NoSeen EXCEPT !.currentBlock = blockNumber]
    /\ UNCHANGED <<listVars, chainVars, triggerVars, addrVars, rewardVars, unitVars, netVars, execVars>>

ClientGetMasternodeInfo ==
    /\ cOp = "none"
    /\ \E candidateAddress \in QueryAddrs :
           /\ AccountOf(candidateAddress) \in DOMAIN capOf   \* an account of this chain
           /\ cArgs' = <<candidateAddress>>
           /\ cRes' = getMasternodeInfo(candidateAddress)
           /\ cSeen' = [NoSeen EXCEPT !.isCandidate =
                           contract_isCandidate(toEthAddress(candidateAddress).val)]
    /\ cOp' = "getMasternodeInfo"
    /\ UNCHANGED <<listVars, chainVars, triggerVars, addrVars, rewardVars, unitVars, netVars, execVars>>

ClientGetVoterInfo ==
    /\ cOp = "none"
    /\ \E voterAddress \in VoterAddrs :
           /\ cArgs' = <<voterAddress>>
           /\ cRes' = getVoterInfo(voterAddress)
    /\ cOp' = "getVoterInfo"
    /\ cSeen' = NoSeen
    /\ UNCHANGED <<listVars, chainVars, triggerVars, addrVars, rewardVars, unitVars, netVars, execVars>>

\* getMasternodesList(limit?) up to Promise.all: the candidate list is read
\* and cut, and one fetch per candidate is started
ClientListStart ==
    /\ cOp = "none"
    /\ \E limitArg \in LimitArgs :
           LET limit == IF limitArg = <<>> THEN DefaultLimit ELSE limitArg[1]
               limitedCandidates == slicePrefix(getCandidates, limit)
           IN  /\ cArgs' = limitArg
               /\ IF Fails("getCandidates", NoAccount)
                  THEN /\ cOp' = "getMasternodesList"
                       /\ cRes' = Throw(UpstreamError)
                       /\ UNCHANGED listVars
                  ELSE IF limitedCandidates = <<>>
                  THEN /\ cOp' = "getMasternodesList"
                       /\ cRes' = Return(sortByStake(<<>>))
                       /\ UNCHANGED listVars
                  ELSE /\ cOp' = "getMasternodesList:fetching"
                       /\ cRes' = Throw("")
                       /\ lPending' = DOMAIN limitedCandidates
                       /\ lResults' = [i \in DOMAIN limitedCandidates |->
                                          NotFetched(limitedCandidates[i])]
    /\ cSeen' = NoSeen
    /\ UNCHANGED <<chainVars, triggerVars, addrVars, rewardVars, unitVars, netVars, execVars>>

\* one fetch completes.  A fetch that fails rejects Promise.all and with it
\* the call; the last fetch to succeed resolves it, and the call sorts and
\* returns.
ClientListFetch ==
    /\ cOp = "getMasternodesList:fetching"
    /\ \E i \in lPending :
           LET fetched == getMasternodeInfo(lResults[i].addr)
               at == Len(lResults) - Cardinality(lPending) + 1
               results == [lResults EXCEPT ![i] = Fetched(@.addr, at, fetched)]
           IN  /\ lResults' = results
               /\ lPending' = lPending \ {i}
               /\ IF ~fetched.ok
                  THEN /\ cOp' = "getMasternodesList"
                       /\ cRes' = Throw(fetched.err)
                  ELSE IF lPending = {i}
                  THEN /\ cOp' = "getMasternodesList"
                       /\ cRes' = Return(sortByStake(masternodesOf(results)))
                  ELSE UNCHANGED <<cOp, cRes>>
    /\ UNCHANGED <<cArgs, cSeen, chainVars, triggerVars, addrVars, rewardVars, unitVars, netVars, execVars>>

\* The write methods.  What a submitted transaction then does to the chain
\* is not followed; sent is the log of what was submitted.
WriteReady == cOp \notin {"idle", "getMasternodesList:fetching"} /\ Len(sent) < MaxSent

Written(op, args, outcome) ==
    /\ cOp' = op
    /\ cArgs' = args
    /\ cRes' = outcome.res
    /\ sent' = sent \o outcome.tx
    /\ cSeen' = NoSeen
    /\ UNCHANGED <<blockNumber, mined, candidates, isCand, capOf, voterCap, upFail, signer,
                   listVars, triggerVars, addrVars, rewardVars, unitVars, netVars, execVars>>

ClientPropose ==
    /\ WriteReady
    /\ \E a \in WriteAddrs, v \in WriteAmounts : Written("propose", <<a, v>>, propose(a, v))

ClientVote ==
    /\ WriteReady
    /\ \E a \in WriteAddrs, v \in WriteAmounts : Written("vote", <<a, v>>, vote(a, v))

ClientUnvote ==
    /\ WriteReady
    /\ \E a \in WriteAddrs, v \in WriteAmounts : Written("unvote", <<a, v>>, unvote(a, v))

ClientResign ==
    /\ WriteReady
    /\ \E a \in WriteAddrs : Written("resign", <<a>>, resign(a))

ClientWithdraw ==
    /\ WriteReady
    /\ \E b \in {blockNumber}, index \in {0, 1} :
           Written("withdraw", <<b, index>>, withdraw(b, index))

NodeVote ==
    /\ WriteReady
    /\ \E a \in WriteAddrs, v \in WriteAmounts :
           Written("node:vote", <<a, v>>, nodeVote(a, v))

NodeUnvote ==
    /\ WriteReady
    /\ \E a \in WriteAddrs, v \in WriteAmounts :
           Written("node:unvote", <<a, v>>, nodeUnvote(a, v))

NodeWithdraw ==
    /\ WriteReady
    /\ \E b \in {blockNumber}, index \in {0, 1} :
           Written("node:withdraw", <<b, index>>, nodeWithdraw(b, index))

\* the node operation awaits masternodeClient.getEpochInfo() ...
NodeGetEpochInfoAwait ==
    /\ cOp = "none"
    /\ cOp' = "node:getEpochInfo:await"
    /\ cArgs' = <<>>
    /\ cRes' = getEpochInfo(<<>>, blockNumber)
    /\ cSeen' = [NoSeen EXCEPT !.currentBlock = blockNumber]
    /\ UNCHANGED <<listVars, chainVars, triggerVars, addrVars, rewardVars, unitVars, netVars, execVars>>

\* ... and then provider.getBlockNumber(), and returns its item
NodeGetEpochInfoReturn ==
    /\ cOp = "node:getEpochInfo:await"
    /\ cOp' = "node:getEpochInfo"
    /\ cRes' = nodeGetEpochInfo(cRes, blockNumber)
    /\ UNCHANGED <<cArgs, cSeen, listVars, chainVars, triggerVars, addrVars, rewardVars, unitVars, netVars, execVars>>

BlockGetLatestBlock ==
    /\ cOp = "none"
    /\ cOp' = "getLatestBlock"
    /\ cArgs' = <<>>
    /\ cRes' = Return(blockResult(blockNumber))
    /\ cSeen' = [NoSeen EXCEPT !.currentBlock = blockNumber]
    /\ UNCHANGED <<listVars, chainVars, triggerVars, addrVars, rewardVars, unitVars, netVars, execVars>>

BlockGetBlock ==
    /\ cOp = "none"
    /\ \E n \in {0, epochBlocks - 1, epochBlocks, blockNumber, blockNumber + 1} :
           LET blockIdentifier == BToString(BFromInt(n))
               blockTag == parseInt(blockIdentifier)
           IN  /\ cArgs' = <<blockIdentifier>>
               /\ cRes' = IF blockTag <= blockNumber THEN Return(blockResult(blockTag))
                          ELSE Throw("Block not found")
    /\ cOp' = "getBlock"
    /\ cSeen' = [NoSeen EXCEPT !.currentBlock = blockNumber]
    /\ UNCHANGED <<listVars, chainVars, triggerVars, addrVars, rewardVars, unitVars, netVars, execVars>>

Poll ==
    /\ tEvent \in {"newBlock", "newEpoch", "tokenTransfer"}
    /\ LET p == poll(tEvent, lastProcessedBlock, blockNumber)
       IN  /\ tOut' = p.items
           /\ tErr' = p.err
           /\ lastProcessedBlock' = p.last
           /\ requests' = Requested(p.made)
           /\ tEmitted' = tEmitted \o [i \in DOMAIN p.items |-> itemKey(p.items[i])]
           /\ tFirst' = IF tFirst < 0 /\ p.err = "" THEN blockNumber ELSE tFirst
    /\ UNCHANGED <<tEvent, net, chainVars, callVars, addrVars, rewardVars, unitVars, execVars>>

\* for (let i = 0; i < items.length; i++) { try { ... } catch { ... } }
ExecuteItem ==
    /\ xStatus = Running
    /\ xI < Len(xItems)
    /\ LET step == executeItem(xItems, xI, xOut, xCont)
       IN  /\ xOut' = step.returnData
           /\ xStatus' = step.status
           /\ xI' = step.i
    /\ requests' = Requested(itemRequests(xItems[xI + 1]))
    /\ UNCHANGED <<xItems, xCont, net, chainVars, callVars, triggerVars, addrVars, rewardVars, unitVars>>

\* return [returnData]
ExecuteReturn ==
    /\ xStatus = Running
    /\ xI >= Len(xItems)
    /\ xStatus' = Returned
    /\ UNCHANGED <<xItems, xCont, xI, xOut, netVars, chainVars, callVars, triggerVars, addrVars, rewardVars, unitVars>>

(***************************************************************************)
(* Specifications                                                          *)
(***************************************************************************)
InitAddr ==
    /\ aArgs \in {<<a>> : a \in AddrInputs} \cup {<<a, b>> : a \in PairInputs, b \in PairInputs}
    /\ aOp = "none"
    /\ aRes = Throw("")
    /\ RewardIdle /\ ChainIdle /\ CallIdle /\ TriggerIdle /\ UnitIdle /\ NetIdle /\ ExecIdle

NextAddr ==
    \/ CallToXdcAddress
    \/ CallToEthAddress
    \/ CallAddressesEqual
    \/ CallIsValidXdcAddress
    \/ CallNormalizeAddress
    \/ CallVerifySignature

InitRewards ==
    /\ rArgs \in {<<s, t, DefaultBlocksPerYear>> : s \in AmountInputs, t \in AmountInputs}
    /\ rOp = "none"
    /\ rRes = RewardsThrow("")
    /\ AddrIdle /\ ChainIdle /\ CallIdle /\ TriggerIdle /\ UnitIdle /\ NetIdle /\ ExecIdle

NextRewards == CallCalculateEstimatedRewards

CallStart == /\ cOp = "none"
             /\ cArgs = <<>>
             /\ cRes = Throw("")
             /\ cSeen = NoSeen
             /\ lPending = {}
             /\ lResults = <<>>

InitEpoch ==
    /\ blockNumber \in StartHeights
    /\ mined = 0
    /\ candidates = <<1, 2>>
    /\ isCand = {1, 2}
    /\ ChainDefaults
    /\ CallStart
    /\ lastProcessedBlock = 0
    /\ tEvent \in {"newBlock", "newEpoch"}
    /\ tOut = <<>>
    /\ tErr = ""
    /\ tEmitted = <<>>
    /\ tFirst = 0 - 1
    /\ AddrIdle /\ RewardIdle /\ UnitIdle /\ NetIdle /\ ExecIdle

NextEpoch ==
    \/ Mine
    \/ ClientGetEpochInfo
    \/ ClientGetCurrentEpoch
    \/ BlockGetLatestBlock
    \/ BlockGetBlock
    \/ Poll
    \/ NodeGetEpochInfoAwait
    \/ NodeGetEpochInfoReturn

InitMasternode ==
    /\ blockNumber = MaxStartEpoch * epochBlocks + 50
    /\ mined = 0
    /\ candidates \in CandidateLists
    /\ isCand \in {{}, AllAccounts}
    /\ ChainDefaults
    /\ CallStart
    /\ TriggerIdle
    /\ AddrIdle /\ RewardIdle /\ UnitIdle /\ NetIdle /\ ExecIdle

NextMasternode == ClientGetMasternodeInfo \/ ClientGetEpochInfo

InitUnits ==
    /\ uArgs \in {<<v, u>> : v \in ValueInputs, u \in UnitInputs}
    /\ uOp = "none"
    /\ uRes = Throw("")
    /\ AddrIdle /\ RewardIdle /\ ChainIdle /\ CallIdle /\ TriggerIdle /\ NetIdle /\ ExecIdle

NextUnits == CallToWei \/ CallFromWei

\* a small chain in which queries may fail
InitAggregate ==
    /\ blockNumber = MaxStartEpoch * epochBlocks + 50
    /\ mined = 0
    /\ \/ candidates \in ShortLists /\ upFail = {}
       \/ candidates \in BaseOrders /\ upFail \in FailSets
    /\ isCand = 1..MaxCands
    /\ \E p \in Profiles : capOf = p.capOf /\ voterCap = p.voterCap
    /\ signer = FALSE
    /\ sent = <<>>
    /\ CallStart
    /\ TriggerIdle
    /\ AddrIdle /\ RewardIdle /\ UnitIdle /\ NetIdle /\ ExecIdle

NextAggregate ==
    \/ ClientListStart
    \/ ClientListFetch
    \/ ClientGetVoterInfo
    \/ ClientGetMasternodeInfo
    \/ ClientGetEpochInfo

\* a provider with or without a private key
InitWrite ==
    /\ blockNumber = MaxStartEpoch * epochBlocks + 50
    /\ mined = 0
    /\ candidates = <<1, 2>>
    /\ isCand = {1, 2}
    /\ capOf = DefaultCaps
    /\ voterCap = <<>>
    /\ upFail = {}
    /\ signer \in BOOLEAN
    /\ sent = <<>>
    /\ CallStart
    /\ TriggerIdle
    /\ AddrIdle /\ RewardIdle /\ UnitIdle /\ NetIdle /\ ExecIdle

NextWrite ==
    \/ ClientPropose
    \/ ClientVote
    \/ ClientUnvote
    \/ ClientResign
    \/ ClientWithdraw
    \/ NodeVote
    \/ NodeUnvote
    \/ NodeWithdraw
    \/ ClientGetCurrentEpoch
    \/ ClientGetEpochInfo

\* a trigger polling a growing chain through a network that may fail
InitTrigger ==
    /\ blockNumber \in StartHeights
    /\ mined = 0
    /\ candidates = <<>>
    /\ isCand = {}
    /\ capOf = <<>>
    /\ voterCap = <<>>
    /\ upFail = {}
    /\ signer = FALSE
    /\ sent = <<>>
    /\ CallIdle
    /\ lastProcessedBlock = 0
    /\ tEvent \in TriggerEvents
    /\ tOut = <<>>
    /\ tErr = ""
    /\ tEmitted = <<>>
    /\ tFirst = 0 - 1
    /\ net \in NetTapes
    /\ requests = 0
    /\ AddrIdle /\ RewardIdle /\ UnitIdle /\ ExecIdle

NextTrigger == Mine \/ Poll

SpecTrigger == InitTrigger /\ [][NextTrigger]_vars

\* execute is called with a list of items, through a network that may fail
InitExecute ==
    /\ blockNumber = MaxStartEpoch * epochBlocks + 50
    /\ mined = 0
    /\ candidates = <<>>
    /\ isCand = {}
    /\ capOf = <<>>
    /\ voterCap = <<>>
    /\ upFail = {}
    /\ signer = FALSE
    /\ sent = <<>>
    /\ CallIdle
    /\ TriggerIdle
    /\ net \in NetTapes
    /\ requests = 0
    /\ xItems \in ItemLists
    /\ xCont \in BOOLEAN
    /\ xI = 0
    /\ xOut = <<>>
    /\ xStatus = Running
    /\ AddrIdle /\ RewardIdle /\ UnitIdle

NextExecute == ExecuteItem \/ ExecuteReturn

SpecExecute == InitExecute /\ [][NextExecute]_vars
SpecAggregate == InitAggregate /\ [][NextAggregate]_vars
SpecWrite == InitWrite /\ [][NextWrite]_vars
SpecUnits == InitUnits /\ [][NextUnits]_vars
SpecAddr == InitAddr /\ [][NextAddr]_vars
SpecRewards == InitRewards /\ [][NextRewards]_vars
SpecEpoch == InitEpoch /\ [][NextEpoch]_vars
SpecMasternode == InitMasternode /\ [][NextMasternode]_vars

(***************************************************************************)
(* Claims about the address utilities (checked under SpecAddr)             *)
(***************************************************************************)
HexDigitsLower == {"0","1","2","3","4","5","6","7","8","9","a","b","c","d","e","f"}

\* The payload of a valid address: what follows its tag.
PayloadOf(a) == CHOOSE p \in HexPayloads : \E t \in Tags : a = t \o p

\* An accepted form: (ignoring case) xdc + 40 hex, 0x + 40 hex, or bare 40 hex.
WellFormedAddr(s) ==
    LET n == toLowerCase(s)
        body == IF startsWith(n, XdcTag) THEN sliceFrom(n, 3)
                ELSE IF startsWith(n, EthTag) THEN sliceFrom(n, 2)
                ELSE n
    IN  Len(body) = PayloadLen /\ \A i \in 1..Len(body) : body[i] \in HexDigitsLower

\* C1: for every all-lowercase 40-hex payload p, toXdcAddress('0x'+p) = 'xdc'+p,
\* toEthAddress('xdc'+p) = '0x'+p, and converting to one format and back
\* returns the address it started from, so both encodings carry the same payload.
C1_RoundTrip ==
    \A p \in LowerHexPayloads :
        /\ (aOp = "toXdcAddress" /\ aArgs = <<EthTag \o p>>) =>
               /\ aRes = Return(XdcTag \o p)
               /\ toEthAddress(aRes.val) = Return(EthTag \o p)
               /\ sliceFrom(aRes.val, 3) = p
        /\ (aOp = "toEthAddress" /\ aArgs = <<XdcTag \o p>>) =>
               /\ aRes = Return(EthTag \o p)
               /\ toXdcAddress(aRes.val) = Return(XdcTag \o p)
               /\ sliceFrom(aRes.val, 2) = p

C1_Witness ==
    /\ aOp = "toXdcAddress"
    /\ aArgs = <<EthTag \o Body(PayloadLen, "a", "1")>>
    /\ aRes.ok
    /\ Len(aRes.val) = PayloadLen + 3

\* C2: for valid addresses a and b in any of the three forms and any letter
\* case, addressesEqual(a, b) is true exactly when the payloads are equal
\* ignoring case, whatever encodings are used, and swapping a and b gives the
\* same answer.
C2_EqualIffSamePayload ==
    (aOp = "addressesEqual" /\ aArgs[1] \in ValidAddrs /\ aArgs[2] \in ValidAddrs) =>
        /\ aRes.ok
        /\ aRes.val = (toLowerCase(PayloadOf(aArgs[1])) = toLowerCase(PayloadOf(aArgs[2])))
        /\ aRes.val = addressesEqual(aArgs[2], aArgs[1])

\* equal payloads in different encodings and different letter case
C2_Witness ==
    /\ aOp = "addressesEqual"
    /\ aArgs = << <<"X","D","C">> \o Body(PayloadLen, "A", "a"),
                  EthTag \o Body(PayloadLen, "a", "a") >>
    /\ aRes.val = TRUE

\* C3: toXdcAddress and toEthAddress return an address only for an accepted
\* form; every other input makes them throw instead of returning a value.
C3_RejectsMalformed ==
    (aOp \in {"toXdcAddress", "toEthAddress"} /\ ~WellFormedAddr(aArgs[1])) => ~aRes.ok

\* C19: isValidXdcAddress returns a boolean for every input and never throws;
\* it is true for xdc or 0x followed by exactly 40 hex characters, and false
\* for the empty string, for a string that is none of the accepted forms and
\* for a tag followed by fewer than 40 hex characters.  (The accepted forms
\* are read without regard to letter case and include the bare 40 hex
\* characters that the conversions accept.)
C19_ValidIffWellFormed ==
    aOp = "isValidXdcAddress" =>
        /\ aRes.ok
        /\ aRes.val \in BOOLEAN
        /\ aRes.val = WellFormedAddr(aArgs[1])
        /\ aArgs[1] \in {t \o p : t \in {XdcTag, EthTag}, p \in HexPayloads} => aRes.val
        /\ aArgs[1] = <<>> => ~aRes.val
        /\ (\E t \in {XdcTag, EthTag} : startsWith(aArgs[1], t)
                /\ Len(aArgs[1]) < Len(t) + PayloadLen) => ~aRes.val

\* 'xdc111': a tag and three hex characters
C19_Witness ==
    /\ aOp = "isValidXdcAddress"
    /\ aArgs = <<XdcTag \o <<"1", "1", "1">> >>
    /\ aRes = Return(FALSE)

\* C20: normalizeAddress(a) without a format argument lowercases a and keeps
\* its encoding: 'XDC...' gives 'xdc...' and '0X...' gives '0x...' with the same
\* payload.
C20_KeepsEncoding ==
    \A p \in HexPayloads :
        /\ (aOp = "normalizeAddress" /\ aArgs = << <<"X","D","C">> \o p >>) =>
               aRes = Return(XdcTag \o toLowerCase(p))
        /\ (aOp = "normalizeAddress" /\ aArgs = << <<"0","X">> \o p >>) =>
               aRes = Return(EthTag \o toLowerCase(p))

\* C27: 'verifySignature' reports isValid = TRUE exactly when the recovered
\* address and expectedSigner have the same 40-hex payload, whichever
\* encoding and letter case expectedSigner is written in; so it reports TRUE
\* for the signer's own address in xdc format and in 0x format.
C27_ValidIffSameSigner ==
    (aOp = "verifySignature" /\ aArgs[2] \in ValidAddrs) =>
        /\ aRes.ok
        /\ aRes.val.isValid =
               (toLowerCase(PayloadOf(aArgs[1])) = toLowerCase(PayloadOf(aArgs[2])))

(***************************************************************************)
(* Claims about the unit conversions (checked under SpecUnits)             *)
(***************************************************************************)
\* the exponent each unit name stands for
UnitExponent ==
    (U_wei :> 0) @@ (U_kwei :> 3) @@ (U_mwei :> 6) @@ (U_gwei :> 9) @@
    (U_szabo :> 12) @@ (U_finney :> 15) @@ (U_xdc :> 18) @@ (U_ether :> 18)

\* s is digits, optionally with one "." among them, and has a digit
IsNumeral(s) ==
    LET d == DotAt(s)
    IN  /\ \E i \in DOMAIN s : IsDigit(s[i])
        /\ \A i \in DOMAIN s : IsDigit(s[i]) \/ i = d

\* the numeral s has no nonzero digit beyond e places after the point
FitsPlaces(s, e) ==
    LET d == DotAt(s)
    IN  d = 0 \/ \A i \in (d + e + 1)..Len(s) : s[i] = "0"

\* the value of the numeral s times 10^e, for a numeral that fits e places
ScaledValue(s, e) ==
    LET d == DotAt(s)
        whole == IF d = 0 THEN s ELSE SubSeq(s, 1, d - 1)
        frac == IF d = 0 THEN <<>> ELSE sliceFrom(s, d)
    IN  BParse(whole \o [i \in 1..e |-> IF i <= Len(frac) THEN frac[i] ELSE "0"])

\* C15: each unit name has its own exponent e (wei 0, kwei 3, mwei 6, gwei 9,
\* szabo 12, finney 15, xdc 18, ether 18); for a non-negative amount v,
\* toWei(v, u) is v * 10^e, and fromWei(w, u) is the exact decimal w / 10^e.
C15_UnitExponents ==
    \A u \in DOMAIN UnitExponent :
        LET e == UnitExponent[u]
        IN  /\ (uOp = "toWei" /\ uArgs[2] = u /\ IsNumeral(uArgs[1]) /\ FitsPlaces(uArgs[1], e)) =>
                   uRes = Return([neg |-> FALSE, mag |-> ScaledValue(uArgs[1], e)])
            /\ (uOp = "fromWei" /\ uArgs[2] = u /\ uArgs[1] # <<>> /\ AllDigits(uArgs[1])) =>
                   /\ uRes.ok
                   /\ IsNumeral(uRes.val)
                   /\ FitsPlaces(uRes.val, e)
                   /\ ScaledValue(uRes.val, e) = BParse(uArgs[1])

\* C16: toWei returns a value only for a non-negative decimal number, and the
\* value it returns is never negative; every other input is rejected.
C16_RejectsBadAmounts ==
    (uOp = "toWei" /\ uRes.ok) =>
        /\ ~uRes.val.neg
        /\ \/ IsNumeral(uArgs[1])
           \/ /\ uArgs[1][1] = "-"              \* minus zero is not negative
              /\ IsNumeral(Tail(uArgs[1]))
              /\ ScaledValue(Tail(uArgs[1]), 0) = <<>>
              /\ FitsPlaces(Tail(uArgs[1]), 0)

(***************************************************************************)
(* Claims about calculateEstimatedRewards (checked under SpecRewards)      *)
(***************************************************************************)
\* A JavaScript numeric string that denotes a finite number >= 0 starts with
\* a digit ("-..." is negative, "NaN" and "Infinity" are not finite numbers).
NonNegNumeral(s) == s # <<>> /\ IsDigit(s[1])

RewardCalled == rOp = "calculateEstimatedRewards"
StakeArg == BParse(rArgs[1])
TotalArg == BParse(rArgs[2])

\* C9: with totalNetworkStake = 0 the four results are all zero for any
\* stake and nothing is divided by zero; with totalNetworkStake > 0 and
\* stake > 0 the four results are non-negative numbers.
C9_ZeroGuardAndNonNegative ==
    RewardCalled =>
        /\ TotalArg = <<>> =>
               rRes = Rewards(<<"0">>, <<"0">>, <<"0">>, <<"0">>)
        /\ (TotalArg # <<>> /\ StakeArg # <<>>) =>
               /\ rRes.ok
               /\ NonNegNumeral(rRes.daily) /\ NonNegNumeral(rRes.monthly)
               /\ NonNegNumeral(rRes.yearly) /\ NonNegNumeral(rRes.apy)

\* a positive stake against a total of zero
C9_Witness ==
    /\ RewardCalled
    /\ rArgs[1] = <<"7">> \o Zeros(MaxZeros) /\ rArgs[2] = <<"0">>
    /\ rRes.ok /\ rRes.yearly = <<"0">>

\* floor(blocksPerYear * rewardPerBlock * stake / totalNetworkStake)
ExactYearly(stake, totalStake, blocksPerYear) ==
    BDiv(BMul(BMul(BFromInt(blocksPerYear), rewardPerBlock), stake), totalStake)

\* C10: yearly is exactly floor(blocksPerYear * rewardPerBlock * stake /
\* totalNetworkStake) wei for every stake >= 0 and totalNetworkStake > 0,
\* with no digit lost to a floating-point step; daily = yearly div 365 and
\* monthly = yearly div 12.
C10_ExactIntegerYearly ==
    (RewardCalled /\ TotalArg # <<>>) =>
        LET exact == ExactYearly(StakeArg, TotalArg, rArgs[3])
        IN  /\ rRes.ok
            /\ rRes.yearly = weiToXdc(exact)
            /\ rRes.daily = weiToXdc(BDivSmall(exact, DaysPerYear))
            /\ rRes.monthly = weiToXdc(BDivSmall(exact, MonthsPerYear))

\* a decimal numeral with exactly two fraction digits, such as "12.50"
TwoPlaces(s) ==
    /\ Len(s) >= 4
    /\ s[Len(s) - 2] = "."
    /\ \A i \in DOMAIN s : i # Len(s) - 2 => IsDigit(s[i])

\* C26: with totalNetworkStake > 0 calculateEstimatedRewards returns an apy
\* that is a decimal numeral with exactly two fraction digits, for every
\* stake; for stake = 0 the amounts daily, monthly and yearly are zero and
\* apy is "0.00" (nothing is divided by the zero stake).
C26_ApyWellDefined ==
    (RewardCalled /\ TotalArg # <<>>) =>
        /\ rRes.ok
        /\ TwoPlaces(rRes.apy)
        /\ StakeArg = <<>> =>
               /\ rRes.daily = weiToXdc(<<>>)
               /\ rRes.monthly = weiToXdc(<<>>)
               /\ rRes.yearly = weiToXdc(<<>>)
               /\ rRes.apy = <<"0", ".", "0", "0">>

(***************************************************************************)
(* Claims about epochs (checked under SpecEpoch)                           *)
(***************************************************************************)
\* floor(h / 900): the one e with e*900 <= h < (e+1)*900
EpochContaining(h) == CHOOSE e \in 0..h : e * 900 <= h /\ h < (e + 1) * 900

\* C4: for every height h >= 0 the epoch reported for h is floor(h / 900) and
\* its range is [epoch*900, epoch*900 + 899]: in getEpochInfo() without an
\* argument, in getCurrentEpoch(), in the items the trigger emits and in the
\* epoch field of the block operations.
C4_EpochOfHeight ==
    /\ (cOp = "getEpochInfo" /\ cArgs = <<>>) =>
           /\ cRes.ok
           /\ cRes.val.number = EpochContaining(cSeen.currentBlock)
           /\ cRes.val.startBlock = cRes.val.number * 900
           /\ cRes.val.endBlock = cRes.val.number * 900 + 899
    /\ cOp = "getCurrentEpoch" =>
           cRes.ok /\ cRes.val = EpochContaining(cSeen.currentBlock)
    /\ (cOp \in {"getLatestBlock", "getBlock"} /\ cRes.ok) =>
           cRes.val.epoch = EpochContaining(cRes.val.number)
    /\ tEvent = "newBlock" =>
           \A i \in DOMAIN tOut : tOut[i].epoch = EpochContaining(tOut[i].blockNumber)
    /\ tEvent = "newEpoch" =>
           \A i \in DOMAIN tOut :
               /\ tOut[i].epoch = EpochContaining(lastProcessedBlock)
               /\ tOut[i].startBlock = tOut[i].epoch * 900
               /\ tOut[i].endBlock = tOut[i].epoch * 900 + 899

\* height 1850: epoch 2 with range [1800, 2699]
C4_Witness ==
    /\ cOp = "getEpochInfo" /\ cArgs = <<>>
    /\ cSeen.currentBlock = 1850
    /\ cRes.val.number = 2
    /\ cRes.val.startBlock = 1800 /\ cRes.val.endBlock = 2699

\* the epochs a chain of the modelled heights can be asked about
EpochsInPlay == 0..(MaxStartEpoch + MaxMine + MaxEpochArg + 1)

\* the range getEpochInfo computes for epoch e
RangeOf(e) == [startBlock |-> startBlockOf(e), endBlock |-> endBlockOf(startBlockOf(e))]

\* C5: epoch ranges partition the heights: the height a getEpochInfo call
\* read lies in exactly one epoch's range, the range the call returns
\* overlaps the range of no other epoch, and endBlock(e) + 1 = startBlock(e+1);
\* a call without an argument returns startBlock <= currentBlock <= endBlock.
C5_RangesPartition ==
    cOp = "getEpochInfo" =>
        LET e == cRes.val.number
            h == cSeen.currentBlock
        IN  /\ cRes.val.startBlock = RangeOf(e).startBlock
            /\ cRes.val.endBlock = RangeOf(e).endBlock
            /\ Cardinality({d \in EpochsInPlay :
                   RangeOf(d).startBlock <= h /\ h <= RangeOf(d).endBlock}) = 1
            /\ \A d \in EpochsInPlay \ {e} :
                   \/ RangeOf(d).endBlock < cRes.val.startBlock
                   \/ cRes.val.endBlock < RangeOf(d).startBlock
            /\ cRes.val.endBlock + 1 = RangeOf(e + 1).startBlock
            /\ cArgs = <<>> =>
                   cRes.val.startBlock <= h /\ h <= cRes.val.endBlock

\* the head of the chain is the last block of its epoch
C5_Witness ==
    /\ cOp = "getEpochInfo" /\ cArgs = <<>>
    /\ cSeen.currentBlock = 2 * 900 - 1
    /\ cRes.val.number = 1
    /\ cRes.val.endBlock = cSeen.currentBlock

\* C17: epoch calculation rejects negative input: getEpochInfo with a
\* negative epochNumber throws, and no EpochInfo has a negative epoch number
\* or a negative block range.
C17_RejectsNegativeEpoch ==
    cOp = "getEpochInfo" =>
        /\ (cArgs # <<>> /\ cArgs[1] < 0) => ~cRes.ok
        /\ cRes.ok => /\ cRes.val.number >= 0
                      /\ cRes.val.startBlock >= 0
                      /\ cRes.val.endBlock >= 0

(***************************************************************************)
(* Claims about masternodes (checked under SpecMasternode)                 *)
(***************************************************************************)
\* the 40 hex digits of an address in any of the accepted forms, lower-cased
LowerPayloadOf(address) == toLowerCase(sliceFrom(address, Len(address) - 40))

\* how many of the chain's candidates are validators
PrefixLen == IF Len(candidates) < 108 THEN Len(candidates) ELSE 108

\* C6: for a candidate list of length L the validator set getEpochInfo
\* reports has length min(L, 108) and is the first min(L, 108) candidates in
\* their original order: never more than 108, none dropped, none reordered.
C6_ValidatorSetIsPrefix ==
    cOp = "getEpochInfo" =>
        /\ Len(cRes.val.validatorSet) = PrefixLen
        /\ Len(cRes.val.validatorSet) <= 108
        /\ \A i \in 1..PrefixLen :
               LowerPayloadOf(cRes.val.validatorSet[i])
                   = toLowerCase(AccountPayload(candidates[i]))

\* 110 candidates, in descending order of account
C6_Witness ==
    /\ cOp = "getEpochInfo"
    /\ Len(candidates) = 110 /\ candidates[1] = 110
    /\ Len(cRes.val.validatorSet) = 108
    /\ AccountOf(cRes.val.validatorSet[108]) = 3

\* C7: getMasternodeInfo(addr).isValidator is true exactly when addr's
\* payload is the payload of one of the first 108 entries of the candidate
\* list, whatever encoding or letter case either uses; a candidate at
\* position 109 or later is not a validator.  (addr comes in every tag and
\* letter case; the list entries are as the contract call returns them, 0x
\* and hex digits in mixed case.)
C7_ValidatorIffInPrefix ==
    cOp = "getMasternodeInfo" =>
        /\ cRes.ok
        /\ cRes.val.isValidator =
               (\E i \in 1..PrefixLen :
                    toLowerCase(AccountPayload(candidates[i])) = LowerPayloadOf(cArgs[1]))

\* the candidate at position 109 of 110, asked for in upper case
C7_Witness ==
    /\ cOp = "getMasternodeInfo"
    /\ Len(candidates) = 110 /\ candidates[109] = 109
    /\ cArgs = << <<"X","D","C">> \o AccountPayload(109) >>
    /\ cRes.val.isValidator = FALSE

\* C8: status is a function of (isCandidate, isValidator): (false, any) is
\* 'resigned', (true, true) is 'active', (true, false) is 'proposed', and no
\* other value is ever returned.
C8_StatusOfPair ==
    cOp = "getMasternodeInfo" =>
        /\ cRes.val.status \in {"resigned", "active", "proposed"}
        /\ ~cSeen.isCandidate => cRes.val.status = "resigned"
        /\ (cSeen.isCandidate /\ cRes.val.isValidator) => cRes.val.status = "active"
        /\ (cSeen.isCandidate /\ ~cRes.val.isValidator) => cRes.val.status = "proposed"

\* no longer a candidate, still among the first 108 of the list
C8_Witness ==
    /\ cOp = "getMasternodeInfo"
    /\ ~cSeen.isCandidate /\ cRes.val.isValidator
    /\ cRes.val.status = "resigned"

(***************************************************************************)
(* Claims about the aggregating calls (checked under SpecAggregate)        *)
(***************************************************************************)
ListReturned == cOp = "getMasternodesList" /\ cRes.ok

\* the limit a getMasternodesList call ran with
LimitOf(limitArg) == IF limitArg = <<>> THEN 108 ELSE limitArg[1]

\* how many candidates getMasternodesList fetches
FetchCount == IF Len(candidates) <= LimitOf(cArgs) THEN Len(candidates) ELSE LimitOf(cArgs)

\* the address getCandidates gives for the k-th candidate
CandidateXdc(k) == XdcTag \o toLowerCase(AccountPayload(candidates[k]))

\* C11: the list getMasternodesList returns is non-increasing by stake over
\* its whole length, the stakes compared as big integers (not as strings);
\* records of equal stake may come in any order.
C11_SortedByStake ==
    ListReturned =>
        \A i, j \in DOMAIN cRes.val :
            i < j => ~BLess(BParse(cRes.val[i].stake), BParse(cRes.val[j].stake))

\* a stake of 10 (XDC) placed ahead of a stake of 9, against string order
C11_Witness ==
    /\ ListReturned
    /\ Len(cRes.val) = MaxCands
    /\ \E i \in 1..(MaxCands - 1) :
           /\ Len(cRes.val[i].stake) > Len(cRes.val[i + 1].stake)
           /\ DigitsLess(cRes.val[i].stake, cRes.val[i + 1].stake)

\* C12: whatever order the parallel fetches complete in, the list returned
\* is the same for the same chain state: one record for each of the first
\* min(L, limit) candidates, in the order the sort gives them starting from
\* candidate-list order.
C12_OrderIndependent ==
    ListReturned =>
        /\ Len(cRes.val) = FetchCount
        /\ \A k \in 1..FetchCount :
               Cardinality({i \in DOMAIN cRes.val : cRes.val[i].address = CandidateXdc(k)}) = 1
        /\ cRes.val = sortByStake([k \in 1..FetchCount |->
                                      getMasternodeInfo(CandidateXdc(k)).val])

\* the first candidate's fetch completed last, and two stakes are equal
C12_Witness ==
    /\ ListReturned
    /\ Len(lResults) = MaxCands
    /\ lResults[1].at = MaxCands
    /\ lResults[1].res.val.stake = lResults[2].res.val.stake

\* the stake query getVoterInfo makes for candidate c succeeds with a stake > 0
Counted(c, voterAddress) ==
    /\ ~Fails("getVoterCap", AccountOf(c))
    /\ contract_getVoterCap(toEthAddress(c).val, toEthAddress(voterAddress).val) # <<>>

RECURSIVE SumOfStakes(_, _)
SumOfStakes(accounts, voterAddress) ==
    IF accounts = {} THEN <<>>
    ELSE LET n == CHOOSE n \in accounts : TRUE
         IN  BAdd(contract_getVoterCap(ChainAddress(n), toEthAddress(voterAddress).val),
                  SumOfStakes(accounts \ {n}, voterAddress))

\* C13: when the candidate list is obtained, getVoterInfo completes whatever
\* subset of the per-candidate stake queries fails: votedFor is the candidates,
\* in list order, whose query succeeded with a stake > 0, totalVoted is the
\* exact sum of those stakes, and if every query fails votedFor is empty and
\* totalVoted is '0'.
C13_PartialResult ==
    (cOp = "getVoterInfo" /\ WellFormedAddr(cArgs[1]) /\ ~Fails("getCandidates", NoAccount)) =>
        LET listed == [k \in DOMAIN candidates |-> CandidateXdc(k)]
            counted == {n \in DOMAIN voterCap :
                           Listed(n) /\ Counted(ChainAddress(n), cArgs[1])}
        IN  /\ cRes.ok
            /\ cRes.val.votedFor = SelectSeq(listed, LAMBDA c : Counted(c, cArgs[1]))
            /\ cRes.val.totalVoted = BToString(SumOfStakes(counted, cArgs[1]))
            /\ (\A k \in DOMAIN candidates : Fails("getVoterCap", candidates[k])) =>
                   cRes.val.votedFor = <<>> /\ cRes.val.totalVoted = <<"0">>

\* the query about one candidate the voter has a stake on fails, the stake on
\* another is counted
C13_Witness ==
    /\ cOp = "getVoterInfo"
    /\ Len(candidates) = MaxCands
    /\ \E n \in DOMAIN voterCap :
           /\ upFail = {Query("getVoterCap", n)}
           /\ voterCap[n] # <<>>
    /\ cRes.ok
    /\ cRes.val.votedFor # <<>>

\* one of the queries getMasternodeInfo makes about account n fails
AnyQueryFails(n) ==
    \/ \E q \in {"getCandidateCap", "getCandidateOwner", "isCandidate", "getVoters"} :
           Fails(q, n)
    \/ Fails("getCandidates", NoAccount)

\* C14: outside the voter loop a failed upstream query is fatal: without the
\* candidate list getVoterInfo, getEpochInfo and getMasternodesList reject
\* with that error; getMasternodeInfo rejects when any one of its queries
\* fails; and getMasternodesList rejects as a whole, with no partial list,
\* when getMasternodeInfo fails for one of its candidates.
C14_FailFast ==
    /\ (Fails("getCandidates", NoAccount)
           /\ cOp \in {"getVoterInfo", "getEpochInfo", "getMasternodesList"}) =>
           /\ ~cRes.ok
           /\ (cOp = "getVoterInfo" => WellFormedAddr(cArgs[1])) => cRes.err = UpstreamError
    /\ (cOp = "getMasternodeInfo" /\ AnyQueryFails(AccountOf(cArgs[1]))) =>
           ~cRes.ok /\ cRes.err = UpstreamError
    /\ cOp = "getMasternodesList" =>
           /\ (\E k \in 1..FetchCount : AnyQueryFails(candidates[k])) => ~cRes.ok
           /\ ~cRes.ok => cRes.val = <<>> /\ cRes.err = UpstreamError

\* the list call rejects although another candidate's fetch had succeeded
C14_Witness ==
    /\ cOp = "getMasternodesList"
    /\ ~cRes.ok
    /\ \E i \in DOMAIN lResults : lResults[i].done /\ lResults[i].res.ok

(***************************************************************************)
(* Claims about the write methods (checked under SpecWrite)                *)
(***************************************************************************)
WriteOps == {"propose", "vote", "unvote", "resign", "withdraw",
             "node:vote", "node:unvote", "node:withdraw"}
SignerErrors == {"Signer required to propose candidacy", "Signer required to vote",
                 "Signer required to unvote", "Signer required to resign",
                 "Signer required to withdraw", "Signer required for writable contracts",
                 "Private key required for voting", "Private key required for unvoting",
                 "Private key required for withdrawal"}

\* C18: without a private key every state-changing operation fails with a
\* signer-required error and nothing is submitted to the chain, while the
\* read-only operations still answer.
C18_SignerRequired ==
    ~signer =>
        /\ sent = <<>>
        /\ cOp \in WriteOps => ~cRes.ok /\ cRes.err \in SignerErrors
        /\ cOp \in {"getCurrentEpoch", "getEpochInfo"} => cRes.ok

\* a vote asked of a client that has no signer
C18_Witness ==
    /\ ~signer
    /\ cOp = "vote"
    /\ cArgs = <<EthTag \o AccountPayload(2), <<"1">> >>
    /\ cRes = Throw("Signer required to vote")
    /\ sent = <<>>

(***************************************************************************)
(* Claims about the epoch figures (checked under SpecEpoch)                *)
(***************************************************************************)
\* 0.25 XDC for each of n blocks, in wei
RewardOfBlocks(n) == BMul(BFromInt(n), rewardPerBlock)

\* C24: for every epochNumber >= 0 the reward figure of getEpochInfo is never
\* negative, and when the epoch has started it is 0.25 XDC times the number
\* of its blocks already mined, min(endBlock, currentBlock) - startBlock + 1.
C24_RewardsOfMinedBlocks ==
    (cOp = "getEpochInfo" /\ cRes.ok /\ cRes.val.number >= 0) =>
        LET h == cSeen.currentBlock
            startBlock == cRes.val.startBlock
            endBlock == cRes.val.endBlock
            minedBlocks == Math_min(endBlock, h) - startBlock + 1
        IN  /\ startBlock <= h =>
                   /\ cRes.val.rewards = BToString(RewardOfBlocks(minedBlocks))
                   /\ cRes.val.rewardsXdc = weiToXdc(RewardOfBlocks(minedBlocks))
            /\ Head(cRes.val.rewards) # "-"
            /\ Head(cRes.val.rewardsXdc) # "-"

\* C25: whatever the chain does between the two height reads of the node
\* operation 'getEpochInfo', the item it returns is consistent: currentBlock
\* lies in [startBlock, endBlock] and blocksRemaining = endBlock -
\* currentBlock lies in 0..899.
C25_ConsistentSnapshot ==
    (cOp = "node:getEpochInfo" /\ cRes.ok) =>
        /\ cRes.val.startBlock <= cRes.val.currentBlock
        /\ cRes.val.currentBlock <= cRes.val.endBlock
        /\ cRes.val.blocksRemaining = cRes.val.endBlock - cRes.val.currentBlock
        /\ cRes.val.blocksRemaining \in 0..899

(***************************************************************************)
(* Claims about the trigger (checked under SpecTrigger)                    *)
(***************************************************************************)
\* the numbers of the items emitted so far
EmittedSet == {tEmitted[i] : i \in DOMAIN tEmitted}

\* the epochs whose first block lies in (tFirst, lastProcessedBlock]: they
\* began after the first completed poll and a later poll has seen them
EpochsBegun ==
    {e \in 0..(MaxStartEpoch + MaxMine + 1) :
        tFirst < e * 900 /\ e * 900 <= lastProcessedBlock}

\* C21: with event 'newEpoch' every epoch that begins after a poll is
\* emitted by some poll, with startBlock = epoch*900 and endBlock =
\* startBlock + 899, also when several epochs begin between two polls.
C21_EveryEpochEmitted ==
    (tEvent = "newEpoch" /\ tFirst >= 0) =>
        /\ \A e \in EpochsBegun : e \in EmittedSet
        /\ \A i \in DOMAIN tOut :
               /\ tOut[i].startBlock = tOut[i].epoch * 900
               /\ tOut[i].endBlock = tOut[i].startBlock + 899

\* C22: with event 'newBlock' every block mined after the first poll and
\* seen by a later poll is emitted, however many blocks are mined between
\* two polls.
C22_EveryBlockEmitted ==
    (tEvent = "newBlock" /\ tFirst >= 0) =>
        \A b \in (tFirst + 1)..lastProcessedBlock : b \in EmittedSet

\* C28: with a chain that only grows, lastProcessedBlock never decreases, a
\* poll that sees currentBlock <= lastProcessedBlock returns null and leaves
\* it unchanged, and no block number or epoch number is emitted twice.
C28_MonotoneNoDuplicates ==
    [][/\ lastProcessedBlock' >= lastProcessedBlock
       /\ (blockNumber' = blockNumber /\ blockNumber <= lastProcessedBlock) =>
              /\ tOut' = <<>>
              /\ lastProcessedBlock' = lastProcessedBlock
       /\ tEvent \in {"newBlock", "newEpoch"} =>
              \A i, j \in DOMAIN tEmitted' : i # j => tEmitted'[i] # tEmitted'[j]]_vars

\* two polls of a growing chain have emitted blocks, and a third poll of the
\* same height has returned null
C28_Witness ==
    /\ tEvent = "newBlock"
    /\ 0 <= tFirst /\ tFirst < lastProcessedBlock
    /\ lastProcessedBlock = blockNumber
    /\ Len(tEmitted) >= 3
    /\ tOut = <<>> /\ tErr = ""

\* C29: a poll that throws leaves lastProcessedBlock as it was, and
\* lastProcessedBlock changes only in a poll that runs to completion, which
\* sets it to the height that poll read.
C29_FailedPollKeepsHeight ==
    [][/\ (requests' # requests /\ tErr' # "") =>
              lastProcessedBlock' = lastProcessedBlock
       /\ lastProcessedBlock' # lastProcessedBlock =>
              tErr' = "" /\ lastProcessedBlock' = blockNumber]_vars

\* an epoch began after block 50 was processed, and the poll that saw it
\* threw on its getBlock request
C29_Witness ==
    /\ tEvent = "newEpoch"
    /\ tErr = NetworkError
    /\ net = <<TRUE, TRUE, FALSE>> /\ requests = 3
    /\ lastProcessedBlock = 50 /\ blockNumber = 950

(***************************************************************************)
(* Claims about Xdc.execute (checked under SpecExecute)                    *)
(***************************************************************************)
IsErrorRecord(r) == "error" \in DOMAIN r.json

\* the operation of the item cannot succeed: an address that is not valid,
\* or a resource the node does not have
MustFail(item) ==
    \/ item.resource \notin {"utility", "block"}
    \/ item.resource = "utility" /\ ~isValidXdcAddress(item.address)

\* the operation of the item makes no request and cannot fail
MustSucceed(item) == item.resource = "utility" /\ isValidXdcAddress(item.address)

\* r is a result of the operation of the item
IsResultOf(r, item) ==
    /\ ~IsErrorRecord(r)
    /\ CASE item.operation = "convertAddress" -> r.json.original = item.address
         [] item.operation = "getLatestBlock" -> r.json.number = blockNumber
         [] item.operation = "getBlockReward" -> r.json.blockNumber = item.blockIdentifier
         [] OTHER -> FALSE

\* r is the one error record of the item of index k
IsErrorOf(r, k) == IsErrorRecord(r) /\ r.pairedItem = [item |-> k] /\ r.json.error # ""

\* C30: execute handles the items in index order.  With continueOnFail, an
\* item that fails leaves exactly one error record paired with its index,
\* the later items are still processed and execute does not throw: the
\* output holds, in input order, each item's result or error record.
\* Without continueOnFail, the first item that fails makes execute throw that
\* item's error, and nothing is returned.
C30_ItemsInOrder ==
    /\ xStatus.state \in {"running", "returned"} =>
           /\ Len(xOut) = xI
           /\ \A k \in 0..(xI - 1) :
                  LET item == xItems[k + 1]
                      r == xOut[k + 1]
                  IN  /\ IsResultOf(r, item) \/ IsErrorOf(r, k)
                      /\ MustFail(item) => IsErrorOf(r, k)
                      /\ MustSucceed(item) => IsResultOf(r, item)
                      /\ IsErrorRecord(r) => xCont
    /\ xStatus.state = "returned" => xI = Len(xItems)
    /\ xCont => xStatus.state # "thrown"
    /\ xStatus.state = "thrown" =>
           /\ xI < Len(xItems)
           /\ ~MustSucceed(xItems[xI + 1])
           /\ xStatus.error # ""
           /\ \A k \in 0..(xI - 1) : ~MustFail(xItems[k + 1])
           /\ \A k \in DOMAIN xOut : ~IsErrorRecord(xOut[k])

\* with continueOnFail, three items of which the first and the last fail
C30_Witness ==
    /\ xCont /\ xStatus.state = "returned"
    /\ Len(xItems) = 3
    /\ IsErrorOf(xOut[1], 0)
    /\ IsResultOf(xOut[2], xItems[2])
    /\ IsErrorOf(xOut[3], 2)

\* C23: a request that fails with a network error is tried again before the
\* failure is reported: when the next request of an item fails and the one
\* after it would succeed, the item does not fail, and an item is reported
\* as failed only after more than one request was made for it.
C23_RetriesNetworkErrors ==
    [][(/\ xStatus = Running
        /\ xI < Len(xItems)
        /\ itemRequests(xItems[xI + 1]) > 0
        /\ ~NetOk(requests + 1)
        /\ <<xI, xOut, xStatus>>' # <<xI, xOut, xStatus>>) =>
            /\ NetOk(requests + 2) =>
                   /\ xStatus'.state # "thrown"
                   /\ ~IsErrorRecord(xOut'[Len(xOut')])
            /\ requests + 2 <= Len(net) => requests' >= requests + 2]_vars

====
